---- MODULE Spec2Model ----
(***************************************************************************)
(* A model of the modeller diagram editor (src/node.py, src/edge.py): the  *)
(* node/edge scene graph, the containment engine and the undo/redo log.    *)
(*                                                                         *)
(* Conventions                                                             *)
(*   - a node or an edge is named by its index in the sequences `node' and *)
(*     `edge' (the Python object); 0 (Nil) is None.  Objects are never     *)
(*     freed: a deleted node keeps its record with in_scene = FALSE.       *)
(*   - a point is <<x, y>>, None is <<>>.  Node positions and sizes are    *)
(*     integers (pixels); edge offsets and path points are rationals       *)
(*     <<num, den>> because border intersections divide.                   *)
(*   - the program is written as operators from a world record to a world  *)
(*     record; every action of the specifications applies one handler.     *)
(***************************************************************************)
EXTENDS Integers, Sequences, FiniteSets, TLC

Nil == 0
None == <<>>

\* a function on 1..n as the sequence it is
AsSeq(f) == f \o <<>>

\* ------------------------------------------------------------------------
\* Rational arithmetic (the code computes in floats; the model is exact)
\* ------------------------------------------------------------------------
Abs(n) == IF n < 0 THEN -n ELSE n

RECURSIVE Gcd(_, _)
Gcd(a, b) == IF b = 0 THEN a ELSE Gcd(b, a % b)

Q_g(n, d, g, s) ==
    <<(s * n) \div g, (s * d) \div g>>

Q(n, d) ==
    Q_g(n, d, Gcd(Abs(n), Abs(d)), IF d < 0 THEN -1 ELSE 1)

R(n) == <<n, 1>>
RAdd_g(a, b, g) ==
    Q(a[1] * (b[2] \div g) + b[1] * (a[2] \div g), (a[2] \div g) * b[2])

\* sums and products reduce before they multiply, to stay within 32 bits
RAdd(a, b) ==
    RAdd_g(a, b, Gcd(a[2], b[2]))
RNeg(a) == <<-a[1], a[2]>>
RSub(a, b) == RAdd(a, RNeg(b))
RMul_g1(a, b, g1, g2) ==
    Q((a[1] \div g1) * (b[1] \div g2), (a[2] \div g2) * (b[2] \div g1))

RMul(a, b) ==
    RMul_g1(a, b, Gcd(Abs(a[1]), b[2]), Gcd(Abs(b[1]), a[2]))
RDiv(a, b) == RMul(a, IF b[1] < 0 THEN <<-b[2], -b[1]>> ELSE <<b[2], b[1]>>)
RLe_g(a, b, g) ==
    a[1] * (b[2] \div g) <= b[1] * (a[2] \div g)

RLe(a, b) ==
    RLe_g(a, b, Gcd(a[2], b[2]))
RLt_g(a, b, g) ==
    a[1] * (b[2] \div g) < b[1] * (a[2] \div g)

RLt(a, b) ==
    RLt_g(a, b, Gcd(a[2], b[2]))
RAbs(a) == <<Abs(a[1]), a[2]>>
RMax(a, b) == IF RLt(a, b) THEN b ELSE a
RMin(a, b) == IF RLt(b, a) THEN b ELSE a

\* a point of rationals from a point of integers
RPt(p) == <<R(p[1]), R(p[2])>>
PAdd(p, q) == <<RAdd(p[1], q[1]), RAdd(p[2], q[2])>>
PSub(p, q) == <<RSub(p[1], q[1]), RSub(p[2], q[2])>>

\* PyQt5's QPointF.__bool__ is "not isNull()": None and the point (0, 0)
\* are both false in `if offset:' (integer points and rational points).
Truthy(p) == p # None /\ p # <<0, 0>>
RTruthy(p) == p # None /\ p # <<R(0), R(0)>>

\* ------------------------------------------------------------------------
\* Program constants
\* ------------------------------------------------------------------------
min_width == 200
min_height == 100
title_height == 30
padding == 10
resize_handle_size == 10
max_undo_stack_size == 50

\* boundingRect pads the rect by max(2, border_width / 2 + 2) = 7/2
border_width == 3
BoundPad == RMax(R(2), RAdd(Q(border_width, 2), R(2)))

\* abs(d) > 1e-6
AboveEps(d) ==
    /\ d[1] # 0
    /\ (Abs(d[1]) >= 2000 \/ Abs(d[1]) * 1000000 > d[2])

\* ------------------------------------------------------------------------
\* Border intersection (Node.get_border_intersection)
\* ------------------------------------------------------------------------
\* rect is the node's rect <<w, h>> (its top-left is the local origin),
\* point a rational point in the node's local coordinates.
\* squared distance of two points
Dist2(p, q) ==
    RAdd(RMul(RSub(p[1], q[1]), RSub(p[1], q[1])),
         RMul(RSub(p[2], q[2]), RSub(p[2], q[2])))

\* min(valid_intersections, key=distance to center): the first of the closest
RECURSIVE ClosestTo(_, _, _)
ClosestTo(center, pts, best) ==
    IF pts = <<>> THEN best
    ELSE ClosestTo(center, Tail(pts),
                   IF RLt(Dist2(Head(pts), center), Dist2(best, center))
                   THEN Head(pts) ELSE best)

VSide_y(sx, top, bottom, t, y) ==
    IF RLe(top, y) /\ RLe(y, bottom) THEN << <<t, <<sx, y>> >> >> ELSE <<>>

VSide_t(sx, center, dy, top, bottom, t) ==
    VSide_y(sx, top, bottom, t, RAdd(center[2], RMul(t, dy)))

\* where the ray from `center' along <<dx, dy>> meets the vertical line
\* x = sx, as <<t, point>> when that is between `top' and `bottom'
VSide(sx, center, dx, dy, top, bottom) ==
    IF ~AboveEps(dx) THEN <<>>
    ELSE VSide_t(sx, center, dy, top, bottom, RDiv(RSub(sx, center[1]), dx))

HSide_x(sy, left, right, t, x) ==
    IF RLe(left, x) /\ RLe(x, right) THEN << <<t, <<x, sy>> >> >> ELSE <<>>

HSide_t(sy, center, dx, left, right, t) ==
    HSide_x(sy, left, right, t, RAdd(center[1], RMul(t, dx)))

\* the same for the horizontal line y = sy
HSide(sy, center, dx, dy, left, right) ==
    IF ~AboveEps(dy) THEN <<>>
    ELSE HSide_t(sy, center, dx, left, right, RDiv(RSub(sy, center[2]), dy))

get_border_intersection_valid_intersections(point, right, center, valid_intersections) ==
    IF point = center THEN <<right, center[2]>>
    ELSE IF valid_intersections # <<>>
         THEN ClosestTo(center, Tail(valid_intersections), Head(valid_intersections))
         ELSE <<right, center[2]>>

get_border_intersection_valid(point, right, center, valid) ==
    get_border_intersection_valid_intersections(point, right, center,
                               AsSeq([i \in 1..Len(valid) |-> valid[i][2]]))

\* the intersections on either side of the center, whatever the sign of t
get_border_intersection_any_t(point, right, center, intersections) ==
    get_border_intersection_valid(point, right, center, intersections)

get_border_intersection_intersections(point, right, center, intersections) ==
    get_border_intersection_valid(point, right, center,
                 SelectSeq(intersections, LAMBDA tp : RLt(R(0), tp[1])))

get_border_intersection_dx(point, left, top, right, bottom, center, dx, dy) ==
    get_border_intersection_intersections(point, right, center,
                         VSide(right, center, dx, dy, top, bottom)
                            \o VSide(left, center, dx, dy, top, bottom)
                            \o HSide(bottom, center, dx, dy, left, right)
                            \o HSide(top, center, dx, dy, left, right))

get_border_intersection_center(point, left, top, right, bottom, center) ==
    get_border_intersection_dx(point, left, top, right, bottom, center,
              RSub(point[1], center[1]),
              RSub(point[2], center[2]))

get_border_intersection_left(point, left, top, right, bottom) ==
    get_border_intersection_center(point, left, top, right, bottom,
                  <<RDiv(RAdd(left, right), R(2)), RDiv(RAdd(top, bottom), R(2))>>)

get_border_intersection(rect, point) ==
    get_border_intersection_left(point,
                RSub(R(0), BoundPad),
               RSub(R(0), BoundPad),
                 RAdd(R(rect[1]), BoundPad),
                  RAdd(R(rect[2]), BoundPad))

\* ------------------------------------------------------------------------
\* State
\* ------------------------------------------------------------------------
VARIABLES
    node,            \* every Node object ever constructed, by identity
    edge,            \* every Edge object ever constructed, by identity
    nodes,           \* NodeEditorWindow.nodes
    scene_edges,     \* scene.edges
    undo_stack,      \* NodeEditorWindow.undo_stack (oldest first)
    redo_stack,      \* NodeEditorWindow.redo_stack (oldest first)
    title_seq,       \* Edge._title_seq
    temp_edge,       \* view.temp_edge
    edge_start_node, \* view.edge_start_node
    hist             \* history of the last step (not program state)

vars == <<node, edge, nodes, scene_edges, undo_stack, redo_stack, title_seq,
          temp_edge, edge_start_node, hist>>

\* The program state as one value; the handlers below map worlds to worlds.
\* `ret' carries the outcome of the last undo_action / redo_action call.
World ==
    [node |-> node, edge |-> edge, nodes |-> nodes, scene_edges |-> scene_edges,
     undo_stack |-> undo_stack, redo_stack |-> redo_stack, title_seq |-> title_seq,
     temp_edge |-> temp_edge, edge_start_node |-> edge_start_node,
     ret |-> [applied |-> FALSE, skipped |-> 0, kind |-> "none"]]

IAdd(p, q) == <<p[1] + q[1], p[2] + q[2]>>
ISub(p, q) == <<p[1] - q[1], p[2] - q[2]>>
Max(a, b) == IF a < b THEN b ELSE a
Min(a, b) == IF a < b THEN a ELSE b

\* list.remove(x): drops the first occurrence
RECURSIVE Remove(_, _)
Remove(s, v) ==
    IF s = <<>> THEN <<>>
    ELSE IF Head(s) = v THEN Tail(s) ELSE <<Head(s)>> \o Remove(Tail(s), v)

Contains(s, v) == \E i \in 1..Len(s) : s[i] = v
Count(s, v) == Cardinality({i \in 1..Len(s) : s[i] = v})
Range(s) == {s[i] : i \in 1..Len(s)}

\* ------------------------------------------------------------------------
\* Node.__init__ and Edge.__init__
\* ------------------------------------------------------------------------
\* Qt gives an item constructed with a parent the parent's scene.  `origin'
\* is the node the user first created: a node recreated by undo inherits it.
NodeInit(w, title, pos, parent, origin) ==
    [title |-> title,
     pos |-> IF pos = None THEN <<0, 0>> ELSE pos,
     rect |-> <<Max(min_width, 200), Max(title_height * 2, min_height)>>,
     node_type |-> "None",
     is_initial |-> FALSE,
     is_container |-> FALSE,
     child_nodes |-> <<>>,
     parent_node |-> Nil,
     connected_edges |-> <<>>,
     is_being_moved |-> FALSE,
     position_before_move |-> None,
     checking_parent |-> FALSE,
     is_resizing |-> FALSE,
     old_rect |-> None,
     old_pos |-> None,
     rect_before_resize |-> None,
     parentItem |-> parent,
     in_scene |-> IF parent = Nil THEN FALSE ELSE w.node[parent].in_scene,
     selected |-> FALSE,
     z |-> 0,
     origin |-> origin]

NoControl == [exists |-> FALSE, in_scene |-> FALSE, node |-> Nil,
              offset |-> None, pos |-> None]
NoWaypoint == [exists |-> FALSE, in_scene |-> FALSE, pos |-> None, fixed_y |-> None]

\* Edge(start_pos): no nodes yet, so update_path() draws the straight line
\* from _start_pos to _end_pos
EdgeInit(start_pos) ==
    [start_pos |-> start_pos,
     end_pos |-> start_pos,
     start_node |-> Nil,
     end_node |-> Nil,
     start_control |-> NoControl,
     end_control |-> NoControl,
     waypoint_control |-> NoWaypoint,
     start_offset |-> None,
     end_offset |-> None,
     waypoint_ratio |-> Q(1, 2),
     title |-> "",
     title_in_scene |-> FALSE,
     in_scene |-> FALSE,
     selected |-> FALSE,
     path |-> <<start_pos, start_pos>>]

\* ------------------------------------------------------------------------
\* Qt: QGraphicsItem / QGraphicsScene behaviour the handlers rely on
\* ------------------------------------------------------------------------
RECURSIVE scenePos(_, _)
scenePos(w, n) ==
    IF w.node[n].parentItem = Nil THEN w.node[n].pos
    ELSE IAdd(w.node[n].pos, scenePos(w, w.node[n].parentItem))

mapToScene(w, n, p) == PAdd(p, RPt(scenePos(w, n)))
mapFromScene(w, n, p) == PSub(p, RPt(scenePos(w, n)))

\* m is n or one of n's Qt descendants
RECURSIVE InSubtree(_, _, _)
InSubtree(w, m, n) ==
    \/ m = n
    \/ /\ w.node[m].parentItem # Nil
       /\ InSubtree(w, w.node[m].parentItem, n)

SetSceneOfSubtree(w, n, b) ==
    [w EXCEPT !.node = AsSeq([m \in DOMAIN w.node |->
        IF InSubtree(w, m, n) THEN [w.node[m] EXCEPT !.in_scene = b] ELSE w.node[m]])]

\* QGraphicsItem.setZValue
setZValue(w, n, z) == [w EXCEPT !.node[n].z = z]

\* the intervals (a1, a2) and (b1, b2) share more than a point
Meet(a1, a2, b1, b2) == RLt(a1, b2) /\ RLt(b1, a2)

Collides_a(w, n, m, a, b) ==
    /\ Meet(R(a[1]), R(a[1] + w.node[n].rect[1]),
            RSub(R(b[1]), BoundPad), RAdd(R(b[1] + w.node[m].rect[1]), BoundPad))
    /\ Meet(R(a[2]), R(a[2] + w.node[n].rect[2]),
            RSub(R(b[2]), BoundPad), RAdd(R(b[2] + w.node[m].rect[2]), BoundPad))

\* scene.items(mapRectToScene(rect), IntersectsItemBoundingRect) holds m:
\* the scene bounding rectangle of m meets the scene rectangle of n
Collides(w, n, m) == Collides_a(w, n, m, scenePos(w, n), scenePos(w, m))

\* other_nodes of update_z_order
other_nodes(w, n) ==
    {m \in DOMAIN w.node : m # n /\ w.node[m].in_scene /\ Collides(w, n, m)}

ZValues(w, ms) == {w.node[m].z : m \in ms}

\* max_z of update_z_order over the nodes ms, -1 when there is none
MaxZ(w, ms) ==
    IF ms = {} THEN -1
    ELSE Max(-1, CHOOSE z \in ZValues(w, ms) : \A y \in ZValues(w, ms) : y <= z)

update_z_order_max_z(w, n, max_z) ==
    IF max_z >= 0 /\ w.node[n].z <= max_z THEN setZValue(w, n, max_z + 1) ELSE w

update_z_order_other_nodes(w, n, others) ==
    IF others = {} THEN setZValue(w, n, 0)
    ELSE update_z_order_max_z(w, n,
             MaxZ(w, {m \in others :
                        w.node[m].rect[1] * w.node[m].rect[2]
                           < w.node[n].rect[1] * w.node[n].rect[2]}))

\* Node.update_z_order
update_z_order(w, n) ==
    IF ~w.node[n].in_scene \/ w.node[n].is_resizing THEN w
    ELSE update_z_order_other_nodes(w, n, other_nodes(w, n))

Least(ms) == CHOOSE k \in ms : \A j \in ms : k <= j

QtChildren(w, n) == {m \in DOMAIN w.node : w.node[m].parentItem = n}

\* Node.itemChange(ItemSceneHasChanged) of the items that join the scene
\* with n: Qt adds the children of an item before it tells the item;
\* ms are the children of n not yet added
RECURSIVE SceneHasChanged(_, _, _)
SceneHasChanged(w, n, ms) ==
    IF ms = {} THEN update_z_order(w, n)
    ELSE SceneHasChanged(SceneHasChanged(w, Least(ms), QtChildren(w, Least(ms))),
                         n, ms \ {Least(ms)})

\* the subtree of n joins the scene
JoinScene(w, n) == SceneHasChanged(w, n, QtChildren(w, n))

\* QGraphicsItem.setSelected with Node.itemChange(ItemSelectedHasChanged)
setSelected(w, n, value) ==
    IF w.node[n].selected = value THEN w
    ELSE IF ~w.node[n].in_scene THEN [w EXCEPT !.node[n].selected = value]
    ELSE IF value THEN setZValue([w EXCEPT !.node[n].selected = TRUE], n, 1000)
    ELSE update_z_order([w EXCEPT !.node[n].selected = FALSE], n)

\* QGraphicsItem.setParentItem: the item keeps its local position; it joins
\* the scene of a new parent and stays in its scene when the parent is None
setParentItem(w, n, p) ==
    IF p = w.node[n].parentItem THEN w
    ELSE IF p = Nil THEN [w EXCEPT !.node[n].parentItem = Nil]
    ELSE IF InSubtree(w, p, n) THEN w
    ELSE IF w.node[p].in_scene /\ ~w.node[n].in_scene
         THEN JoinScene(SetSceneOfSubtree([w EXCEPT !.node[n].parentItem = p], n, TRUE), n)
    ELSE SetSceneOfSubtree([w EXCEPT !.node[n].parentItem = p], n, w.node[p].in_scene)

removeItem_w1(n, w1, p) ==
    IF p # Nil /\ w1.node[p].in_scene
    THEN [w1 EXCEPT !.node[n].parentItem = Nil] ELSE w1

\* QGraphicsScene.removeItem: the item leaves with its Qt children and is
\* detached from a parent that stays in the scene
removeItem(w, n) ==
    IF ~w.node[n].in_scene THEN w
    ELSE removeItem_w1(n, SetSceneOfSubtree(w, n, FALSE), w.node[n].parentItem)

addItem_w1(n, w1) ==
    JoinScene(SetSceneOfSubtree(w1, n, TRUE), n)

addItem_p(w, n, p) ==
    addItem_w1(n,
              IF p # Nil /\ ~w.node[p].in_scene
              THEN [w EXCEPT !.node[n].parentItem = Nil] ELSE w)

\* QGraphicsScene.addItem: no effect on an item of the scene; an item whose
\* parent is outside the scene is detached from it first
addItem(w, n) ==
    IF w.node[n].in_scene THEN w
    ELSE addItem_p(w, n, w.node[n].parentItem)

\* scene.selectedItems() restricted to nodes and edges
SelectedNodes(w) == {n \in DOMAIN w.node : w.node[n].in_scene /\ w.node[n].selected}
SelectedEdges(w) == {e \in DOMAIN w.edge : w.edge[e].in_scene /\ w.edge[e].selected}

\* for selected_item in scene.selectedItems(): selected_item.setSelected(False)
RECURSIVE DeselectNodes(_, _)
DeselectNodes(w, ms) ==
    IF ms = {} THEN w
    ELSE DeselectNodes(setSelected(w, Least(ms), FALSE), ms \ {Least(ms)})

ClearSelection(w) ==
    [DeselectNodes(w, SelectedNodes(w))
       EXCEPT !.edge = AsSeq([e \in DOMAIN w.edge |->
                 IF e \in SelectedEdges(w) THEN [w.edge[e] EXCEPT !.selected = FALSE]
                 ELSE w.edge[e]])]

\* ------------------------------------------------------------------------
\* Edge (src/edge.py)
\* ------------------------------------------------------------------------
Ctl(ed, is_start) == IF is_start THEN ed.start_control ELSE ed.end_control
EndNode(ed, is_start) == IF is_start THEN ed.start_node ELSE ed.end_node
EndOffset(ed, is_start) == IF is_start THEN ed.start_offset ELSE ed.end_offset

SetCtl(w, e, is_start, c) ==
    IF is_start THEN [w EXCEPT !.edge[e].start_control = c]
    ELSE [w EXCEPT !.edge[e].end_control = c]

SetOffset(w, e, is_start, off) ==
    IF is_start THEN [w EXCEPT !.edge[e].start_offset = off]
    ELSE [w EXCEPT !.edge[e].end_offset = off]

get_connection_point_w1(w, n, offset, w1, other_center) ==
    [w |-> w1,
     pt |-> IF offset # None THEN mapToScene(w, n, offset)
            ELSE mapToScene(w, n,
                    get_border_intersection(w.node[n].rect,
                                            mapFromScene(w, n, other_center)))]

get_connection_point_offset(w, e, is_start, ed, n, other_node, custom, offset) ==
    get_connection_point_w1(w, n, offset,
              IF custom THEN SetOffset(w, e, is_start, offset) ELSE w,
                        IF other_node # Nil THEN RPt(scenePos(w, other_node))
                        ELSE IF is_start THEN ed.end_pos ELSE ed.start_pos)

get_connection_point_custom(w, e, is_start, ed, n, other_node, control, custom) ==
    get_connection_point_offset(w, e, is_start, ed, n, other_node, custom,
                  IF custom THEN control.offset ELSE EndOffset(ed, is_start))

get_connection_point_n(w, e, is_start, ed, n, other_node, control) ==
    get_connection_point_custom(w, e, is_start, ed, n, other_node, control,
                  control.exists /\ RTruthy(control.offset))

get_connection_point_ed(w, e, is_start, ed) ==
    get_connection_point_n(w, e, is_start, ed,
             EndNode(ed, is_start),
                      EndNode(ed, ~is_start),
                   Ctl(ed, is_start))

\* Edge.get_connection_point: the scene point of one end, and the world in
\* which the control's offset has been cached into the edge
get_connection_point(w, e, is_start) ==
    get_connection_point_ed(w, e, is_start, w.edge[e])

RECURSIVE update_path(_, _)

ControlSetPos_scene_pos(w, e, is_start, p, c, border_intersection, scene_pos) ==
    IF p = c.pos THEN w
    ELSE IF scene_pos = c.pos
         THEN SetCtl(w, e, is_start, [c EXCEPT !.offset = border_intersection])
         ELSE update_path(
                 SetCtl(w, e, is_start,
                        [c EXCEPT !.offset = border_intersection, !.pos = scene_pos]),
                 e)

ControlSetPos_border_intersection(w, e, is_start, p, c, border_intersection) ==
    ControlSetPos_scene_pos(w, e, is_start, p, c, border_intersection,
                     mapToScene(w, c.node, border_intersection))

ControlSetPos_c(w, e, is_start, p, c) ==
    ControlSetPos_border_intersection(w, e, is_start, p, c,
            get_border_intersection(w.node[c.node].rect, mapFromScene(w, c.node, p)))

\* EdgeControlPoint.setPos with its itemChange: the point is projected onto
\* the node's border, the offset follows, and a real move redraws the edge
ControlSetPos(w, e, is_start, p) ==
    ControlSetPos_c(w, e, is_start, p, Ctl(w.edge[e], is_start))

update_position_r(e, is_start, r) ==
    ControlSetPos(r.w, e, is_start, r.pt)

\* EdgeControlPoint.update_position
update_position(w, e, is_start) ==
    update_position_r(e, is_start, get_connection_point(w, e, is_start))

\* the ratio as computed, not clamped
Unclamped(q) == q

\* max(0.0, min(1.0, ratio))
Clamp01(q) == RMax(R(0), RMin(R(1), q))

WaypointSetPos_w1(w, e, p, wc, new_pos, w1) ==
    IF p = wc.pos THEN w
    ELSE IF new_pos = wc.pos THEN w1
         ELSE update_path([w1 EXCEPT !.edge[e].waypoint_control.pos = new_pos], e)

\* the ratio measured from the end connection point
WaypointSetPos_from_end(w, e, p, wc, new_pos, both, s, t, dx) ==
    WaypointSetPos_w1(w, e, p, wc, new_pos,
              IF ~both THEN w
              ELSE IF RLt(Q(1, 10), RAbs(dx))
                   THEN [t.w EXCEPT !.edge[e].waypoint_ratio =
                            Clamp01(RDiv(RSub(new_pos[1], t.pt[1]), dx))]
                   ELSE t.w)

WaypointSetPos_dx(w, e, p, wc, new_pos, both, s, t, dx) ==
    WaypointSetPos_w1(w, e, p, wc, new_pos,
              IF ~both THEN w
              ELSE IF RLt(Q(1, 10), RAbs(dx))
                   THEN [t.w EXCEPT !.edge[e].waypoint_ratio =
                            Clamp01(RDiv(RSub(new_pos[1], s.pt[1]), dx))]
                   ELSE t.w)

WaypointSetPos_t(w, e, p, wc, new_pos, both, s, t) ==
    WaypointSetPos_dx(w, e, p, wc, new_pos, both, s, t, RSub(t.pt[1], s.pt[1]))

WaypointSetPos_new_pos(w, e, p, wc, new_pos, both, s) ==
    WaypointSetPos_t(w, e, p, wc, new_pos, both, s, get_connection_point(s.w, e, FALSE))

WaypointSetPos_wc(w, e, p, wc) ==
    WaypointSetPos_new_pos(w, e, p, wc,
                   IF wc.fixed_y # None THEN <<p[1], wc.fixed_y>> ELSE p,
                w.edge[e].start_node # Nil /\ w.edge[e].end_node # Nil,
             get_connection_point(w, e, TRUE))

\* WaypointControlPoint.setPos with its itemChange: y is pinned to fixed_y
\* and the ratio is recomputed from the requested x
WaypointSetPos(w, e, p) ==
    WaypointSetPos_wc(w, e, p, w.edge[e].waypoint_control)

\* the tail of update_path: setPath, and the title item joins the scene
SetPath(w, e, path) ==
    [w EXCEPT !.edge[e].path = path,
              !.edge[e].title_in_scene = @ \/ w.edge[e].in_scene]

update_path_actual_start_pos(w, e, end_pos, actual_start_pos) ==
    SetPath(w, e, <<actual_start_pos, end_pos>>)

update_path_start_pos(w, e, ed, start_pos, end_pos) ==
    update_path_actual_start_pos(w, e, end_pos,
            IF ed.start_node # Nil
            THEN mapToScene(w, ed.start_node,
                    get_border_intersection(w.node[ed.start_node].rect,
                        mapFromScene(w, ed.start_node, end_pos)))
            ELSE start_pos)

update_path_w3(e, actual_start_pos, actual_end_pos, waypoint1, waypoint2, w3) ==
    SetPath(w3, e, <<actual_start_pos, waypoint1, waypoint2, actual_end_pos>>)

update_path_w2(e, actual_start_pos, actual_end_pos, mid_x, waypoint1, waypoint2, w2, waypoint_mid_y) ==
    update_path_w3(e, actual_start_pos, actual_end_pos, waypoint1, waypoint2,
              IF w2.edge[e].waypoint_control.exists
              THEN WaypointSetPos(
                      [w2 EXCEPT !.edge[e].waypoint_control.fixed_y = waypoint_mid_y],
                      e, <<mid_x, waypoint_mid_y>>)
              ELSE w2)

update_path_waypoint1(e, actual_start_pos, actual_end_pos, mid_x, waypoint1, waypoint2, w1) ==
    update_path_w2(e, actual_start_pos, actual_end_pos, mid_x, waypoint1, waypoint2,
              IF w1.edge[e].end_control.exists
              THEN update_position(w1, e, FALSE) ELSE w1,
                          RDiv(RAdd(actual_start_pos[2], actual_end_pos[2]), R(2)))

update_path_mid_x(e, t, actual_start_pos, actual_end_pos, mid_x) ==
    update_path_waypoint1(e, actual_start_pos, actual_end_pos, mid_x,
                     <<mid_x, actual_start_pos[2]>>,
                     <<mid_x, actual_end_pos[2]>>,
              IF t.w.edge[e].start_control.exists
              THEN update_position(t.w, e, TRUE) ELSE t.w)

update_path_dx(e, t, actual_start_pos, actual_end_pos, dx) ==
    update_path_mid_x(e, t, actual_start_pos, actual_end_pos,
                 RAdd(actual_start_pos[1], RMul(dx, t.w.edge[e].waypoint_ratio)))

update_path_actual_end_pos(e, t, actual_start_pos, actual_end_pos) ==
    update_path_dx(e, t, actual_start_pos, actual_end_pos,
              RSub(actual_end_pos[1], actual_start_pos[1]))

update_path_t(e, t, actual_start_pos) ==
    update_path_actual_end_pos(e, t, actual_start_pos, t.pt)

update_path_s(e, s) ==
    update_path_t(e, get_connection_point(s.w, e, FALSE), s.pt)

\* a routing that draws the straight line whatever is connected
update_path_straight(w, e, ed) ==
    update_path_start_pos(w, e, ed,
                          IF ed.start_node # Nil
                          THEN RPt(scenePos(w, ed.start_node)) ELSE ed.start_pos,
                        IF ed.end_node # Nil
                        THEN RPt(scenePos(w, ed.end_node)) ELSE ed.end_pos)

update_path_ed(w, e, ed) ==
    IF ed.start_node # Nil /\ ed.end_node # Nil
    THEN update_path_s(e, get_connection_point(w, e, TRUE))
    ELSE update_path_start_pos(w, e, ed,
                          IF ed.start_node # Nil
                          THEN RPt(scenePos(w, ed.start_node)) ELSE ed.start_pos,
                        IF ed.end_node # Nil
                        THEN RPt(scenePos(w, ed.end_node)) ELSE ed.end_pos)

\* Edge.update_path
update_path(w, e) ==
    update_path_ed(w, e, w.edge[e])

\* Edge.set_end_pos
set_end_pos(w, e, pos) == update_path([w EXCEPT !.edge[e].end_pos = pos], e)

set_start_node_w3(e, w3) ==
    update_path(w3, e)

set_start_node_w2(e, n, w2) ==
    set_start_node_w3(e,
              IF n # Nil /\ ~Contains(w2.node[n].connected_edges, e)
              THEN [w2 EXCEPT !.node[n].connected_edges = Append(@, e)] ELSE w2)

set_start_node_w1(e, n, w1) ==
    set_start_node_w2(e, n, [w1 EXCEPT !.edge[e].start_node = n])

set_start_node_old(w, e, n, old) ==
    set_start_node_w1(e, n,
              IF old # Nil /\ Contains(w.node[old].connected_edges, e)
              THEN [w EXCEPT !.node[old].connected_edges = Remove(@, e)] ELSE w)

\* Edge.set_start_node / Edge.set_end_node
set_start_node(w, e, n) ==
    set_start_node_old(w, e, n, w.edge[e].start_node)

set_end_node_w3(e, w3) ==
    update_path(w3, e)

set_end_node_w2(e, n, w2) ==
    set_end_node_w3(e,
              IF n # Nil /\ ~Contains(w2.node[n].connected_edges, e)
              THEN [w2 EXCEPT !.node[n].connected_edges = Append(@, e)] ELSE w2)

set_end_node_w1(e, n, w1) ==
    set_end_node_w2(e, n, [w1 EXCEPT !.edge[e].end_node = n])

set_end_node_old(w, e, n, old) ==
    set_end_node_w1(e, n,
              IF old # Nil /\ Contains(w.node[old].connected_edges, e)
              THEN [w EXCEPT !.node[old].connected_edges = Remove(@, e)] ELSE w)

set_end_node(w, e, n) ==
    set_end_node_old(w, e, n, w.edge[e].end_node)

NewControl_scene_pos(e, r, c0, border_intersection, scene_pos) ==
    IF r.pt = c0.pos THEN [w |-> r.w, c |-> c0]
    ELSE IF scene_pos = c0.pos
         THEN [w |-> r.w, c |-> [c0 EXCEPT !.offset = border_intersection]]
         ELSE [w |-> update_path(r.w, e),
               c |-> [c0 EXCEPT !.offset = border_intersection, !.pos = scene_pos]]

NewControl_c0(w, e, n, r, c0, border_intersection) ==
    NewControl_scene_pos(e, r, c0, border_intersection, mapToScene(w, n, border_intersection))

NewControl_n(w, e, n, r) ==
    NewControl_c0(w, e, n, r,
              [exists |-> TRUE, in_scene |-> FALSE, node |-> n,
               offset |-> <<R(0), R(0)>>, pos |-> <<R(0), R(0)>>],
            get_border_intersection(w.node[n].rect, mapFromScene(w, n, r.pt)))

\* EdgeControlPoint.__init__: the control positions itself while the edge
\* does not hold it yet; the result is the world and the new control
NewControl(w, e, is_start) ==
    NewControl_n(w, e, EndNode(w.edge[e], is_start), get_connection_point(w, e, is_start))

\* Edge.set_title
set_title(w, e, text) == [w EXCEPT !.edge[e].title = text]

\* Edge.assign_default_title
assign_default_title(w, e) ==
    IF w.edge[e].start_node # Nil /\ w.edge[e].end_node # Nil /\ w.edge[e].title = ""
    THEN [set_title(w, e, "EV_" \o ToString(w.title_seq)) EXCEPT !.title_seq = @ + 1]
    ELSE w

create_control_points_w3(e, w3) ==
    assign_default_title(update_path(w3, e), e)

create_control_points_w2(e, w2) ==
    create_control_points_w3(e,
              IF w2.edge[e].waypoint_control.exists THEN w2
              ELSE [w2 EXCEPT !.edge[e].waypoint_control =
                       [exists |-> TRUE, in_scene |-> TRUE,
                        pos |-> <<R(0), R(0)>>, fixed_y |-> None]])

create_control_points_b(e, w1, b) ==
    create_control_points_w2(e,
              IF w1.edge[e].end_control.exists THEN w1
              ELSE SetCtl(b.w, e, FALSE,
                     [b.c EXCEPT !.offset = IF b.w.edge[e].end_offset # None
                                            THEN b.w.edge[e].end_offset ELSE @,
                                 !.in_scene = TRUE]))

create_control_points_w1(e, w1) ==
    create_control_points_b(e, w1, NewControl(w1, e, FALSE))

create_control_points_a(w, e, a) ==
    create_control_points_w1(e,
              IF w.edge[e].start_control.exists THEN w
              ELSE SetCtl(a.w, e, TRUE,
                     [a.c EXCEPT !.offset = IF a.w.edge[e].start_offset # None
                                            THEN a.w.edge[e].start_offset ELSE @,
                                 !.in_scene = TRUE]))

\* Edge.create_control_points(scene)
create_control_points(w, e) ==
    create_control_points_a(w, e, NewControl(w, e, TRUE))

\* ------------------------------------------------------------------------
\* Node (src/node.py)
\* ------------------------------------------------------------------------
RECURSIVE UpdatePaths(_, _)
UpdatePaths(w, es) ==
    IF es = <<>> THEN w ELSE UpdatePaths(update_path(w, Head(es)), Tail(es))

\* Node.update_descendant_edges
RECURSIVE update_descendant_edges(_, _)
RECURSIVE UpdateChildEdges(_, _)
update_descendant_edges_w1(w, n, w1) ==
    IF w.node[n].is_container /\ w.node[n].child_nodes # <<>>
    THEN UpdateChildEdges(w1, w.node[n].child_nodes) ELSE w1

update_descendant_edges(w, n) ==
    update_descendant_edges_w1(w, n, UpdatePaths(w, w.node[n].connected_edges))

UpdateChildEdges(w, cs) ==
    IF cs = <<>> THEN w
    ELSE UpdateChildEdges(update_descendant_edges(w, Head(cs)), Tail(cs))

\* Node.setPos with Node.itemChange: nothing happens when the position is
\* the current one; in a scene the move raises is_being_moved, recomputes
\* the z-order where the node still stands and, once moved, redraws the
\* edges of the node and of its descendants
setPos(w, n, p) ==
    IF p = w.node[n].pos THEN w
    ELSE IF w.node[n].in_scene
         THEN update_descendant_edges(
                 [update_z_order([w EXCEPT !.node[n].is_being_moved = TRUE], n)
                    EXCEPT !.node[n].pos = p], n)
         ELSE [w EXCEPT !.node[n].pos = p]

\* Node.boundingRect: the rect grown by the pad on every side
BoundingSize(rect) ==
    <<rect[1] + RMul(R(2), BoundPad)[1], rect[2] + RMul(R(2), BoundPad)[1]>>

\* Node.setup_container (no child exists yet when it runs, so
\* update_inner_rect has nothing to clamp)
setup_container(w, n) == [w EXCEPT !.node[n].is_container = TRUE]

\* y of the child lowest in the container, plus its bounding height
RECURSIVE LowestBottom(_, _)
LowestBottom(w, cs) ==
    IF cs = <<>> THEN 0
    ELSE Max(w.node[Head(cs)].pos[2] + BoundingSize(w.node[Head(cs)].rect)[2],
             LowestBottom(w, Tail(cs)))

add_child_node_w3(self, n, w3) ==
    [w3 EXCEPT !.node[self].child_nodes = Append(@, n)]

add_child_node_y_pos(self, n, pos, w2, y_pos, x_pos) ==
    add_child_node_w3(self, n, setPos(w2, n, IF pos # None THEN pos ELSE <<x_pos, y_pos>>))

add_child_node_cs(self, n, pos, w2, cs) ==
    add_child_node_y_pos(self, n, pos, w2,
                 IF cs # <<>> THEN LowestBottom(w2, cs) + 10
                 ELSE title_height + padding + 10,
                 padding + 10)

add_child_node_w2(self, n, pos, w2) ==
    add_child_node_cs(self, n, pos, w2, w2.node[self].child_nodes)

add_child_node_w1(self, n, pos, w1) ==
    add_child_node_w2(self, n, pos,
              [setParentItem(w1, n, self) EXCEPT !.node[n].parent_node = self])

\* Node.add_child_node(node, pos)
add_child_node(w, self, n, pos) ==
    add_child_node_w1(self, n, pos,
              IF ~w.node[self].is_container THEN setup_container(w, self) ELSE w)

\* Node.remove_child_node(node)
remove_child_node(w, self, n) ==
    IF Contains(w.node[self].child_nodes, n)
    THEN [setParentItem([w EXCEPT !.node[self].child_nodes = Remove(@, n)], n, Nil)
            EXCEPT !.node[n].parent_node = Nil]
    ELSE w

\* Node.set_node_type
set_node_type(w, n, node_type) ==
    [w EXCEPT !.node[n].node_type = node_type,
              !.node[n].title = IF node_type \in {"StateMachine", "State"}
                                THEN node_type ELSE @]

\* Node.set_initial_state
set_initial_state(w, n, is_initial) ==
    IF w.node[n].node_type = "State"
    THEN [w EXCEPT !.node[n].is_initial = is_initial] ELSE w

\* Node._is_ancestor_of: a is on the parent_node chain above n
RECURSIVE is_ancestor_of(_, _, _)
is_ancestor_of_current(w, a, current) ==
    current # Nil /\ (current = a \/ is_ancestor_of(w, a, current))

is_ancestor_of(w, a, n) ==
    is_ancestor_of_current(w, a, w.node[n].parent_node)

\* ------------------------------------------------------------------------
\* The undo log (NodeEditorWindow.record_*)
\* ------------------------------------------------------------------------
\* `if len(stack) > max_undo_stack_size: stack.pop(0)'
LimitStack(s) ==
    IF Len(s) > max_undo_stack_size THEN Tail(s) ELSE s

\* a push that forgets the limit
PushUnlimited(stack, r) == Append(stack, r)

\* append, then drop the oldest entry beyond max_undo_stack_size
Push(stack, r) ==
    LimitStack(Append(stack, r))

record_node_movement(w, n, old_pos, new_pos) ==
    [w EXCEPT !.undo_stack = Push(@, [type |-> "node_move", node |-> n,
                                      old_pos |-> old_pos, new_pos |-> new_pos]),
              !.redo_stack = <<>>]

record_node_creation(w, n, parent) ==
    [w EXCEPT !.undo_stack = Push(@, [type |-> "node_create", node |-> n,
                                      parent |-> parent, position |-> w.node[n].pos]),
              !.redo_stack = <<>>]

record_node_deletion(w, n) ==
    [w EXCEPT !.undo_stack = Push(@, [type |-> "node_delete",
                  node_data |-> [title |-> w.node[n].title,
                                 position |-> w.node[n].pos,
                                 node_type |-> w.node[n].node_type,
                                 is_initial |-> w.node[n].is_initial,
                                 rect |-> w.node[n].rect,
                                 parent |-> w.node[n].parent_node,
                                 node_id |-> n],
                  restored_node |-> Nil]),
              !.redo_stack = <<>>]

record_node_type_change(w, n, old_type, new_type, old_title) ==
    [w EXCEPT !.undo_stack = Push(@, [type |-> "node_type_change", node |-> n,
                                      old_type |-> old_type, new_type |-> new_type,
                                      old_title |-> old_title]),
              !.redo_stack = <<>>]

record_node_resize(w, n, old_rect, new_rect) ==
    [w EXCEPT !.undo_stack = Push(@, [type |-> "node_resize", node |-> n,
                                      old_rect |-> old_rect, new_rect |-> new_rect]),
              !.redo_stack = <<>>]

record_edge_creation(w, e) ==
    [w EXCEPT !.undo_stack = Push(@, [type |-> "edge_create", edge |-> e,
                                      start_node |-> w.edge[e].start_node,
                                      end_node |-> w.edge[e].end_node]),
              !.redo_stack = <<>>]

get_endpoint_offset_reference_scene_pos(w, is_start, ed, n, reference_scene_pos) ==
    IF n = Nil THEN None
    ELSE IF Ctl(ed, is_start).exists THEN Ctl(ed, is_start).offset
    ELSE IF EndOffset(ed, is_start) # None THEN EndOffset(ed, is_start)
    ELSE get_border_intersection(w.node[n].rect,
                                 mapFromScene(w, n, reference_scene_pos))

get_endpoint_offset_n(w, is_start, ed, n, other) ==
    get_endpoint_offset_reference_scene_pos(w, is_start, ed, n,
                               IF other # Nil THEN RPt(scenePos(w, other))
                               ELSE IF is_start THEN ed.end_pos ELSE ed.start_pos)

get_endpoint_offset_ed(w, is_start, ed) ==
    get_endpoint_offset_n(w, is_start, ed, EndNode(ed, is_start), EndNode(ed, ~is_start))

\* Edge.get_endpoint_offset
get_endpoint_offset(w, e, is_start) ==
    get_endpoint_offset_ed(w, is_start, w.edge[e])

\* record_edge_deletion: the one recorder that leaves the redo stack alone
record_edge_deletion(w, e) ==
    [w EXCEPT !.undo_stack = Push(@, [type |-> "edge_delete",
                  edge_data |-> [start_node |-> w.edge[e].start_node,
                                 end_node |-> w.edge[e].end_node,
                                 start_node_id |-> w.edge[e].start_node,
                                 end_node_id |-> w.edge[e].end_node,
                                 title |-> w.edge[e].title,
                                 waypoint_ratio |-> w.edge[e].waypoint_ratio,
                                 start_offset |-> get_endpoint_offset(w, e, TRUE),
                                 end_offset |-> get_endpoint_offset(w, e, FALSE)],
                  restored_edge |-> Nil])]

record_edge_connection_change(w, e, is_start, old_offset, new_offset) ==
    [w EXCEPT !.undo_stack = Push(@, [type |-> "edge_connection_change", edge |-> e,
                                      is_start |-> is_start,
                                      old_offset |-> old_offset,
                                      new_offset |-> new_offset]),
              !.redo_stack = <<>>]

record_edge_waypoint_change(w, e, old_ratio, new_ratio) ==
    [w EXCEPT !.undo_stack = Push(@, [type |-> "edge_waypoint_change", edge |-> e,
                                      old_ratio |-> old_ratio, new_ratio |-> new_ratio]),
              !.redo_stack = <<>>]

record_node_title_change(w, n, old_title, new_title) ==
    [w EXCEPT !.undo_stack = Push(@, [type |-> "node_title_change", node |-> n,
                                      old_title |-> old_title, new_title |-> new_title]),
              !.redo_stack = <<>>]

record_edge_title_change(w, e, old_title, new_title) ==
    [w EXCEPT !.undo_stack = Push(@, [type |-> "edge_title_change", edge |-> e,
                                      old_title |-> old_title, new_title |-> new_title]),
              !.redo_stack = <<>>]

record_node_initial_change(w, n, was_initial, is_initial) ==
    [w EXCEPT !.undo_stack = Push(@, [type |-> "node_initial_change", node |-> n,
                                      was_initial |-> was_initial,
                                      is_initial |-> is_initial]),
              !.redo_stack = <<>>]

\* `QPointF(old_pos) if old_pos else None': a null old position is lost
record_node_reparent(w, n, old_parent, new_parent, old_pos) ==
    [w EXCEPT !.undo_stack = Push(@, [type |-> "node_reparent", node |-> n,
                                      old_parent |-> old_parent,
                                      new_parent |-> new_parent,
                                      old_pos |-> IF Truthy(old_pos) THEN old_pos ELSE None,
                                      new_pos |-> w.node[n].pos]),
              !.redo_stack = <<>>]

RectContains_a(w, m, n, a, b) ==
    /\ a[1] <= b[1]
    /\ b[1] + w.node[n].rect[1] <= a[1] + w.node[m].rect[1]
    /\ a[2] <= b[2]
    /\ b[2] + w.node[n].rect[2] <= a[2] + w.node[m].rect[2]

\* ------------------------------------------------------------------------
\* Containment (Node._check_and_update_parent and its helpers)
\* ------------------------------------------------------------------------
\* sceneBoundingRect of m contains that of n: both rects carry the same
\* pad, so the test is the one on the rects themselves; QRectF.contains
\* admits shared borders
RectContains(w, m, n) ==
    RectContains_a(w, m, n, scenePos(w, m), scenePos(w, n))

Area(w, m) == w.node[m].rect[1] * w.node[m].rect[2]

potential_parents(w, n) ==
    {m \in DOMAIN w.node :
        /\ m # n
        /\ w.node[m].in_scene
        /\ ~is_ancestor_of(w, n, m)
        /\ ~(is_ancestor_of(w, m, n) /\ m # w.node[n].parent_node)
        /\ RectContains(w, m, n)}

\* The candidates the stable sort by area may put first: scene.items()
\* lists them in stacking order, which this model does not track, so any
\* candidate of least area can be potential_parents[0].
FirstChoices(w, n) ==
    IF potential_parents(w, n) = {} THEN {Nil}
    ELSE {m \in potential_parents(w, n) :
            \A k \in potential_parents(w, n) : Area(w, m) <= Area(w, k)}

reparent_to_w4(n, new_parent, old_parent, old_pos, w4) ==
    IF w4.node[n].in_scene
    THEN record_node_reparent(w4, n, old_parent, new_parent, old_pos)
    ELSE w4

reparent_to_local_pos(n, new_parent, old_parent, old_pos, w3, local_pos) ==
    reparent_to_w4(n, new_parent, old_parent, old_pos, setPos(w3, n, local_pos))

reparent_to_w3(n, new_parent, scene_pos, old_parent, old_pos, w3) ==
    reparent_to_local_pos(n, new_parent, old_parent, old_pos, w3,
                     ISub(scene_pos, scenePos(w3, new_parent)))

reparent_to_w2(n, new_parent, scene_pos, old_parent, old_pos, w2) ==
    reparent_to_w3(n, new_parent, scene_pos, old_parent, old_pos,
              add_child_node(w2, new_parent, n, None))

reparent_to_old_pos(n, new_parent, scene_pos, old_parent, old_pos, w1) ==
    reparent_to_w2(n, new_parent, scene_pos, old_parent, old_pos,
              IF ~w1.node[new_parent].is_container
              THEN setup_container(w1, new_parent) ELSE w1)

reparent_to_scene_pos(w, n, new_parent, scene_pos, old_parent) ==
    reparent_to_old_pos(n, new_parent, scene_pos, old_parent,
                   IF old_parent # Nil THEN w.node[n].pos ELSE None,
              IF old_parent # Nil THEN remove_child_node(w, old_parent, n) ELSE w)

\* Node._reparent_to
reparent_to(w, n, new_parent) ==
    reparent_to_scene_pos(w, n, new_parent, scenePos(w, n), w.node[n].parent_node)

remove_from_parent_w3(w, n, old_parent, old_pos, had_scene, w3) ==
    IF old_parent = Nil THEN w
    ELSE IF had_scene
         THEN record_node_reparent(w3, n, old_parent, Nil, old_pos)
         ELSE w3

remove_from_parent_w2(w, n, scene_pos, old_parent, old_pos, had_scene, w2) ==
    remove_from_parent_w3(w, n, old_parent, old_pos, had_scene, setPos(w2, n, scene_pos))

remove_from_parent_w1(w, n, scene_pos, old_parent, old_pos, had_scene, w1) ==
    remove_from_parent_w2(w, n, scene_pos, old_parent, old_pos, had_scene,
              IF had_scene THEN addItem(w1, n) ELSE w1)

remove_from_parent_scene_pos(w, n, scene_pos, old_parent, old_pos, had_scene) ==
    remove_from_parent_w1(w, n, scene_pos, old_parent, old_pos, had_scene,
              remove_child_node(w, old_parent, n))

\* Node._remove_from_parent
remove_from_parent(w, n) ==
    remove_from_parent_scene_pos(w, n,
                     scenePos(w, n),
                      w.node[n].parent_node,
                   w.node[n].pos,
                     w.node[n].in_scene)

\* Node._check_and_update_parent; `first' is potential_parents[0] after the
\* sort (Nil when the list is empty)
check_and_update_parent(w, n, first) ==
    IF ~w.node[n].in_scene \/ w.node[n].checking_parent \/ w.node[n].is_resizing
    THEN w
    ELSE IF potential_parents(w, n) # {}
         THEN IF first # w.node[n].parent_node THEN reparent_to(w, n, first) ELSE w
         ELSE IF w.node[n].parent_node # Nil THEN remove_from_parent(w, n) ELSE w

delete_edge_w4(e, w4) ==
    IF w4.edge[e].in_scene
    THEN [w4 EXCEPT !.scene_edges = Remove(@, e), !.edge[e].in_scene = FALSE]
    ELSE w4

delete_edge_w3(e, w3) ==
    delete_edge_w4(e,
              [w3 EXCEPT !.edge[e].start_control.in_scene = FALSE,
                         !.edge[e].end_control.in_scene = FALSE,
                         !.edge[e].waypoint_control.in_scene = FALSE,
                         !.edge[e].title_in_scene = FALSE])

delete_edge_t(e, w2, t) ==
    delete_edge_w3(e,
              IF t # Nil THEN [w2 EXCEPT !.node[t].connected_edges = Remove(@, e)] ELSE w2)

delete_edge_w2(e, w2) ==
    delete_edge_t(e, w2, w2.edge[e].end_node)

delete_edge_s(e, w1, s) ==
    delete_edge_w2(e,
              IF s # Nil THEN [w1 EXCEPT !.node[s].connected_edges = Remove(@, e)] ELSE w1)

delete_edge_w1(e, w1) ==
    delete_edge_s(e, w1, w1.edge[e].start_node)

\* ------------------------------------------------------------------------
\* Creating and deleting (window and view operations)
\* ------------------------------------------------------------------------
\* Edge.delete_edge
delete_edge(w, e, record_for_undo) ==
    delete_edge_w1(e,
              IF record_for_undo /\ w.edge[e].in_scene
              THEN record_edge_deletion(w, e) ELSE w)

RECURSIVE DeleteEdges(_, _, _)
DeleteEdges(w, es, record_for_undo) ==
    IF es = <<>> THEN w
    ELSE DeleteEdges(delete_edge(w, Head(es), record_for_undo), Tail(es), record_for_undo)

\* NodeEditorWindow.delete_node
RECURSIVE delete_node(_, _, _)
RECURSIVE DeleteChildren(_, _)
delete_node_w5(n, w5) ==
    [w5 EXCEPT !.nodes = Remove(@, n)]

delete_node_w4(n, w4) ==
    delete_node_w5(n, removeItem(w4, n))

delete_node_p(n, w3, p) ==
    delete_node_w4(n, IF p # Nil THEN [w3 EXCEPT !.node[p].child_nodes = Remove(@, n)] ELSE w3)

delete_node_w3(n, w3) ==
    delete_node_p(n, w3, w3.node[n].parent_node)

delete_node_w2(n, w2) ==
    delete_node_w3(n, DeleteChildren(w2, w2.node[n].child_nodes))

delete_node_w1(n, record_for_undo, w1) ==
    delete_node_w2(n, IF record_for_undo THEN record_node_deletion(w1, n) ELSE w1)

delete_node_connected_edges(w, n, record_for_undo, connected_edges) ==
    delete_node_w1(n, record_for_undo, DeleteEdges(w, connected_edges, record_for_undo))

delete_node(w, n, record_for_undo) ==
    delete_node_connected_edges(w, n, record_for_undo,
            SelectSeq(w.scene_edges,
                      LAMBDA e : w.edge[e].start_node = n \/ w.edge[e].end_node = n))

\* a deletion that leaves the children to the scene
DeleteChildrenSkipped(w, cs) == w

DeleteChildren(w, cs) ==
    IF cs = <<>> THEN w
    ELSE DeleteChildren(delete_node(w, Head(cs), FALSE), Tail(cs))

add_node_w3(n, w3) ==
    record_node_creation(w3, n, Nil)

add_node_w2(n, w2) ==
    add_node_w3(n, setSelected(ClearSelection(w2), n, TRUE))

add_node_w1(n, w1) ==
    add_node_w2(n, [addItem(w1, n) EXCEPT !.nodes = Append(@, n)])

add_node_n(w, pos, n, title) ==
    add_node_w1(n, [w EXCEPT !.node = Append(@, NodeInit(w, title, pos, Nil, n))])

\* NodeEditorWindow.add_node(pos), as the context menu calls it
add_node(w, pos) ==
    add_node_n(w, pos, Len(w.node) + 1, "Node " \o ToString(Len(w.nodes) + 1))

view_add_child_node_w3(parent_node, child, w3) ==
    record_node_creation(w3, child, parent_node)

view_add_child_node_w2(parent_node, local_pos, child, w2) ==
    view_add_child_node_w3(parent_node, child,
              add_child_node(w2, parent_node, child, local_pos))

view_add_child_node_local_pos(parent_node, w1, local_pos, child) ==
    view_add_child_node_w2(parent_node, local_pos, child,
              [w1 EXCEPT !.node =
                  Append(@, NodeInit(w1, "Child Node", None, parent_node, child))])

view_add_child_node_w1(w, parent_node, scene_pos, w1) ==
    view_add_child_node_local_pos(parent_node, w1,
                     ISub(scene_pos, scenePos(w1, parent_node)),
                 Len(w.node) + 1)

\* NodeEditorGraphicsView.add_child_node(parent_node, pos)
view_add_child_node(w, parent_node, scene_pos) ==
    view_add_child_node_w1(w, parent_node, scene_pos,
              IF ~w.node[parent_node].is_container
              THEN setup_container(w, parent_node) ELSE w)

view_remove_node_from_parent_w2(w, n, parent, parent_scene_pos, w2) ==
    IF parent = Nil THEN w
    ELSE setPos(w2, n, IAdd(parent_scene_pos, <<50, 50>>))

view_remove_node_from_parent_parent_scene_pos(w, n, parent, parent_scene_pos, w1) ==
    view_remove_node_from_parent_w2(w, n, parent, parent_scene_pos, addItem(w1, n))

view_remove_node_from_parent_parent(w, n, parent) ==
    view_remove_node_from_parent_parent_scene_pos(w, n, parent,
                            scenePos(w, parent),
              remove_child_node(w, parent, n))

\* NodeEditorGraphicsView.remove_node_from_parent(node)
view_remove_node_from_parent(w, n) ==
    view_remove_node_from_parent_parent(w, n, w.node[n].parent_node)

\* ------------------------------------------------------------------------
\* Undo (NodeEditorWindow.undo_action)
\* ------------------------------------------------------------------------
Last(s) == s[Len(s)]
Front(s) == SubSeq(s, 1, Len(s) - 1)

\* the nodes below n in the child_nodes lists
RECURSIVE Descendants(_, _)
Descendants(w, n) ==
    Range(w.node[n].child_nodes)
        \cup UNION {Descendants(w, c) : c \in Range(w.node[n].child_nodes)}

\* node_exists / find_node_by_id: the search runs over window.nodes and the
\* child_nodes lists below them
node_exists(w, node_id) ==
    \E n \in Range(w.nodes) : n = node_id \/ node_id \in Descendants(w, n)

find_node_by_id(w, node_id) ==
    IF node_id # Nil /\ node_exists(w, node_id) THEN node_id ELSE Nil

\* NodeEditorWindow.validate_undo_action
validate_undo_action(w, action) ==
    CASE action.type = "node_move" -> w.node[action.node].in_scene
      [] action.type = "node_create" ->
            /\ w.node[action.node].in_scene
            /\ (action.parent # Nil =>
                    Contains(w.node[action.parent].child_nodes, action.node))
      [] action.type = "node_delete" -> ~node_exists(w, action.node_data.node_id)
      [] action.type = "node_type_change" -> w.node[action.node].in_scene
      [] OTHER -> TRUE

RelinkRecord_d2(action, d2) ==
    [action EXCEPT !.edge_data = d2]

RelinkRecord_d1(action, original_node_id, new_node, d1) ==
    RelinkRecord_d2(action,
              IF d1.end_node_id = original_node_id
              THEN [d1 EXCEPT !.end_node = new_node, !.end_node_id = new_node]
              ELSE d1)

RelinkRecord_d(action, original_node_id, new_node, d) ==
    RelinkRecord_d1(action, original_node_id, new_node,
              IF d.start_node_id = original_node_id
              THEN [d EXCEPT !.start_node = new_node, !.start_node_id = new_node]
              ELSE d)

\* NodeEditorWindow._relink_stored_edge_nodes
RelinkRecord(action, original_node_id, new_node) ==
    IF action.type # "edge_delete" THEN action
    ELSE RelinkRecord_d(action, original_node_id, new_node, action.edge_data)

relink_stored_edge_nodes(w, original_node_id, new_node) ==
    [w EXCEPT
       !.undo_stack = [i \in DOMAIN @ |-> RelinkRecord(@[i], original_node_id, new_node)],
       !.redo_stack = [i \in DOMAIN @ |-> RelinkRecord(@[i], original_node_id, new_node)]]

\* The outcome of one dispatch branch: the world, whether the branch ran to
\* the push onto the other stack, and the (possibly annotated) record
Done(w, action) == [w |-> w, ok |-> TRUE, action |-> action]
Stale(w, action) == [w |-> w, ok |-> FALSE, action |-> action]

\* the controls, the title and the edge itself leave the scene
\* (undo of node_create keeps the control objects on the edge)
RECURSIVE RemoveEdgesFromScene(_, _)
RemoveEdgesFromScene_e(w, es, e) ==
    RemoveEdgesFromScene(
       [w EXCEPT !.scene_edges = Remove(@, e),
                 !.edge[e].start_control.in_scene = FALSE,
                 !.edge[e].end_control.in_scene = FALSE,
                 !.edge[e].waypoint_control.in_scene = FALSE,
                 !.edge[e].title_in_scene = FALSE,
                 !.edge[e].in_scene = FALSE],
       Tail(es))

RemoveEdgesFromScene(w, es) ==
    IF es = <<>> THEN w
    ELSE RemoveEdgesFromScene_e(w, es, Head(es))

undo_node_move(w, a) ==
    IF w.node[a.node].in_scene
    THEN Done(update_descendant_edges(
                setPos([w EXCEPT !.node[a.node].position_before_move = None,
                                 !.node[a.node].is_being_moved = FALSE],
                       a.node, a.old_pos),
                a.node), a)
    ELSE Stale(w, a)

undo_node_create_w2(w, a, n, w2) ==
    IF w.node[n].in_scene
    THEN Done([w2 EXCEPT !.nodes = Remove(@, n)], a)
    ELSE Stale(w, a)

undo_node_create_edges_to_remove(w, a, n, w1, edges_to_remove) ==
    undo_node_create_w2(w, a, n, removeItem(RemoveEdgesFromScene(w1, edges_to_remove), n))

undo_node_create_w1(w, a, n, w1) ==
    undo_node_create_edges_to_remove(w, a, n, w1,
            SelectSeq(w1.scene_edges,
                      LAMBDA e : w1.edge[e].start_node = n \/ w1.edge[e].end_node = n))

undo_node_create_n(w, a, n) ==
    undo_node_create_w1(w, a, n,
              IF a.parent # Nil
              THEN [w EXCEPT !.node[a.parent].child_nodes = Remove(@, n)] ELSE w)

undo_node_create(w, a) ==
    undo_node_create_n(w, a, a.node)

undo_node_delete_w2(a, d, n, w2) ==
    Done(relink_stored_edge_nodes(w2, d.node_id, n), [a EXCEPT !.restored_node = n])

undo_node_delete_w1(a, d, n, w1) ==
    undo_node_delete_w2(a, d, n,
              IF d.parent # Nil
              THEN setPos(add_child_node(w1, d.parent, n, None), n, d.position)
              ELSE setPos([addItem(w1, n) EXCEPT !.nodes = Append(@, n)], n, d.position))

undo_node_delete_typed(w, a, d, n, typed) ==
    undo_node_delete_w1(a, d, n,
              [w EXCEPT !.node = Append(@, [typed EXCEPT !.is_initial = d.is_initial,
                                                          !.rect = d.rect])])

undo_node_delete_fresh(w, a, d, n, fresh) ==
    undo_node_delete_typed(w, a, d, n,
                 IF d.node_type # "None"
                 THEN [fresh EXCEPT !.node_type = d.node_type, !.title = d.title]
                 ELSE fresh)

undo_node_delete_d(w, a, d, n) ==
    undo_node_delete_fresh(w, a, d, n,
                 NodeInit(w, d.title, None, d.parent, w.node[d.node_id].origin))

undo_node_delete(w, a) ==
    undo_node_delete_d(w, a, a.node_data, Len(w.node) + 1)

undo_node_type_change(w, a) ==
    IF w.node[a.node].in_scene
    THEN Done([set_node_type(w, a.node, a.old_type) EXCEPT !.node[a.node].title = a.old_title], a)
    ELSE Stale(w, a)

undo_node_resize(w, a) ==
    IF w.node[a.node].in_scene
    THEN Done([w EXCEPT !.node[a.node].rect = a.old_rect], a)
    ELSE Stale(w, a)

undo_node_initial_change(w, a) ==
    IF w.node[a.node].in_scene /\ w.node[a.node].node_type = "State"
    THEN Done(set_initial_state(w, a.node, a.was_initial), a)
    ELSE Stale(w, a)

undo_edge_create_ed(w, a, e, ed) ==
    IF ed.in_scene
    THEN Done([w EXCEPT
                 !.scene_edges = Remove(@, e),
                 !.edge[e].start_control =
                     IF @.exists /\ @.in_scene THEN NoControl ELSE @,
                 !.edge[e].end_control =
                     IF @.exists /\ @.in_scene THEN NoControl ELSE @,
                 !.edge[e].waypoint_control =
                     IF @.exists /\ @.in_scene THEN NoWaypoint ELSE @,
                 !.edge[e].title_in_scene = FALSE,
                 !.edge[e].in_scene = FALSE], a)
    ELSE Stale(w, a)

undo_edge_create_e(w, a, e) ==
    undo_edge_create_ed(w, a, e, w.edge[e])

undo_edge_create(w, a) ==
    undo_edge_create_e(w, a, a.edge)

snap_endpoint_to_node_w1(w, e, is_start, ed, n, chosen_offset, w1) ==
    IF n = Nil THEN w
    ELSE IF Ctl(ed, is_start).exists
         THEN update_position(
                 SetCtl(w1, e, is_start,
                        [Ctl(w1.edge[e], is_start) EXCEPT !.offset = chosen_offset]),
                 e, is_start)
         ELSE w1

snap_endpoint_to_node_chosen_offset(w, e, is_start, ed, n, chosen_offset) ==
    snap_endpoint_to_node_w1(w, e, is_start, ed, n, chosen_offset,
              SetOffset(w, e, is_start, chosen_offset))

snap_endpoint_to_node_other_scene_pos(w, e, is_start, preferred_offset, ed, n, other_scene_pos) ==
    snap_endpoint_to_node_chosen_offset(w, e, is_start, ed, n,
            IF preferred_offset # None THEN preferred_offset
            ELSE get_border_intersection(w.node[n].rect, mapFromScene(w, n, other_scene_pos)))

snap_endpoint_to_node_n(w, e, is_start, preferred_offset, ed, n, other_node) ==
    snap_endpoint_to_node_other_scene_pos(w, e, is_start, preferred_offset, ed, n,
                           IF other_node # Nil THEN RPt(scenePos(w, other_node))
                           ELSE IF is_start THEN ed.end_pos ELSE ed.start_pos)

snap_endpoint_to_node_ed(w, e, is_start, preferred_offset, ed) ==
    snap_endpoint_to_node_n(w, e, is_start, preferred_offset, ed,
             EndNode(ed, is_start),
                      EndNode(ed, ~is_start))

\* Edge._snap_endpoint_to_node and Edge.snap_endpoints_to_nodes
snap_endpoint_to_node(w, e, is_start, preferred_offset) ==
    snap_endpoint_to_node_ed(w, e, is_start, preferred_offset, w.edge[e])

snap_endpoints_to_nodes(w, e, saved_start, saved_end) ==
    update_path(
        snap_endpoint_to_node(snap_endpoint_to_node(w, e, TRUE, saved_start),
                              e, FALSE, saved_end),
        e)

undo_edge_delete_w4(w, a, start_node, end_node, e, w4) ==
    IF start_node # Nil /\ end_node # Nil
    THEN Done([w4 EXCEPT !.scene_edges = Append(@, e)],
              [a EXCEPT !.restored_edge = e])
    ELSE Stale(w, a)

undo_edge_delete_w3(w, a, d, start_node, end_node, e, w3) ==
    undo_edge_delete_w4(w, a, start_node, end_node, e,
              snap_endpoints_to_nodes(create_control_points(w3, e), e,
                                      d.start_offset, d.end_offset))

undo_edge_delete_w2(w, a, d, start_node, end_node, e, w2) ==
    undo_edge_delete_w3(w, a, d, start_node, end_node, e,
              [w2 EXCEPT !.edge[e].waypoint_ratio = d.waypoint_ratio,
                         !.edge[e].in_scene = TRUE])

undo_edge_delete_w1(w, a, d, start_node, end_node, e, w1) ==
    undo_edge_delete_w2(w, a, d, start_node, end_node, e,
              set_title(set_end_node(set_start_node(w1, e, start_node), e, end_node),
                        e, d.title))

undo_edge_delete_start_node(w, a, d, start_node, end_node, e) ==
    undo_edge_delete_w1(w, a, d, start_node, end_node, e,
              [w EXCEPT !.edge = Append(@, EdgeInit(RPt(scenePos(w, start_node))))])

undo_edge_delete_d(w, a, d) ==
    undo_edge_delete_start_node(w, a, d,
                      IF (d.start_node = Nil \/ ~w.node[d.start_node].in_scene)
                         /\ d.start_node_id # Nil
                      THEN find_node_by_id(w, d.start_node_id) ELSE d.start_node,
                    IF (d.end_node = Nil \/ ~w.node[d.end_node].in_scene)
                       /\ d.end_node_id # Nil
                    THEN find_node_by_id(w, d.end_node_id) ELSE d.end_node,
             Len(w.edge) + 1)

undo_edge_delete(w, a) ==
    undo_edge_delete_d(w, a, a.edge_data)

SetConnectionOffset_w1(e, w1) ==
    update_path(w1, e)

SetConnectionOffset_c(w, e, is_start, offset, c) ==
    SetConnectionOffset_w1(e,
              IF c.exists
              THEN update_position(SetCtl(w, e, is_start, [c EXCEPT !.offset = offset]),
                                   e, is_start)
              ELSE w)

\* the body shared by undo and redo of edge_connection_change
SetConnectionOffset(w, e, is_start, offset) ==
    SetConnectionOffset_c(w, e, is_start, offset, Ctl(w.edge[e], is_start))

undo_edge_connection_change(w, a) ==
    IF w.edge[a.edge].in_scene
    THEN Done(SetConnectionOffset(w, a.edge, a.is_start, a.old_offset), a)
    ELSE Stale(w, a)

undo_edge_waypoint_change(w, a) ==
    IF w.edge[a.edge].in_scene
    THEN Done(update_path([w EXCEPT !.edge[a.edge].waypoint_ratio = a.old_ratio], a.edge), a)
    ELSE Stale(w, a)

undo_node_title_change(w, a) ==
    IF w.node[a.node].in_scene
    THEN Done([w EXCEPT !.node[a.node].title = a.old_title], a)
    ELSE Stale(w, a)

undo_edge_title_change(w, a) ==
    IF w.edge[a.edge].in_scene
    THEN Done(set_title(w, a.edge, a.old_title), a)
    ELSE Stale(w, a)

\* the body without the reset of the finally clause
Reparent_flag_kept(n, w3) ==
    update_descendant_edges(w3, n)

Reparent_w3(n, w3) ==
    [update_descendant_edges(w3, n) EXCEPT !.node[n].checking_parent = FALSE]

Reparent_w2(n, pos, w2) ==
    Reparent_w3(n, IF Truthy(pos) THEN setPos(w2, n, pos) ELSE w2)

Reparent_w1(n, parent, pos, w1) ==
    Reparent_w2(n, pos,
              IF parent # Nil
              THEN add_child_node(
                      IF ~w1.node[parent].is_container
                      THEN setup_container(w1, parent) ELSE w1,
                      parent, n, None)
              ELSE addItem(w1, n))

Reparent_cur(n, parent, pos, w0, cur) ==
    Reparent_w1(n, parent, pos, IF cur # Nil THEN remove_child_node(w0, cur, n) ELSE w0)

Reparent_w0(n, parent, pos, w0) ==
    Reparent_cur(n, parent, pos, w0, w0.node[n].parent_node)

\* the body shared by undo and redo of node_reparent: back under `parent'
\* (or to the scene) at `pos', which is applied only when it is truthy
Reparent(w, n, parent, pos) ==
    Reparent_w0(n, parent, pos, [w EXCEPT !.node[n].checking_parent = TRUE])

\* node.scene() == self.scene or (node.parent_node and
\*                                node.parent_node.scene() == self.scene)
ReparentTargetAlive(w, n) ==
    \/ w.node[n].in_scene
    \/ /\ w.node[n].parent_node # Nil
       /\ w.node[w.node[n].parent_node].in_scene

undo_node_reparent(w, a) ==
    IF ReparentTargetAlive(w, a.node)
    THEN Done(Reparent(w, a.node, a.old_parent, a.old_pos), a)
    ELSE Stale(w, a)

UndoDispatch(w, a) ==
    CASE a.type = "node_move" -> undo_node_move(w, a)
      [] a.type = "node_create" -> undo_node_create(w, a)
      [] a.type = "node_delete" -> undo_node_delete(w, a)
      [] a.type = "node_type_change" -> undo_node_type_change(w, a)
      [] a.type = "node_resize" -> undo_node_resize(w, a)
      [] a.type = "node_initial_change" -> undo_node_initial_change(w, a)
      [] a.type = "edge_create" -> undo_edge_create(w, a)
      [] a.type = "edge_delete" -> undo_edge_delete(w, a)
      [] a.type = "edge_connection_change" -> undo_edge_connection_change(w, a)
      [] a.type = "edge_waypoint_change" -> undo_edge_waypoint_change(w, a)
      [] a.type = "node_title_change" -> undo_node_title_change(w, a)
      [] a.type = "edge_title_change" -> undo_edge_title_change(w, a)
      [] a.type = "node_reparent" -> undo_node_reparent(w, a)

\* NodeEditorWindow.undo_action.  ret.kind is the type of the entry the call
\* dispatched ("none" when the stack ran empty), ret.applied whether its
\* branch completed, ret.skipped how many entries validation discarded.
\* an undo that drops the entry it applied
undo_action_drops(action, r) ==
    IF r.ok
    THEN [r.w EXCEPT !.ret.applied = TRUE, !.ret.kind = action.type]
    ELSE [r.w EXCEPT !.ret.kind = action.type]

RECURSIVE undo_action(_)
undo_action_r(action, r) ==
    IF r.ok
    THEN [r.w EXCEPT !.redo_stack = Push(@, r.action),
                     !.ret.applied = TRUE, !.ret.kind = action.type]
    ELSE [r.w EXCEPT !.ret.kind = action.type]

undo_action_action(w, action) ==
    undo_action_r(action, UndoDispatch([w EXCEPT !.undo_stack = Front(@)], action))

undo_action(w) ==
    IF w.undo_stack = <<>> THEN w
    ELSE IF ~validate_undo_action(w, Last(w.undo_stack))
         THEN undo_action([w EXCEPT !.undo_stack = Front(@), !.ret.skipped = @ + 1])
         ELSE undo_action_action(w, Last(w.undo_stack))

\* ------------------------------------------------------------------------
\* Redo (NodeEditorWindow.redo_action)
\* ------------------------------------------------------------------------
redo_node_move(w, a) ==
    IF w.node[a.node].in_scene
    THEN Done(update_descendant_edges(
                setPos([w EXCEPT !.node[a.node].position_before_move = None,
                                 !.node[a.node].is_being_moved = FALSE],
                       a.node, a.new_pos),
                a.node), a)
    ELSE Stale(w, a)

redo_node_create(w, a) ==
    IF w.node[a.node].in_scene THEN Stale(w, a)
    ELSE IF a.parent # Nil
         THEN Done(add_child_node(w, a.parent, a.node, a.position), a)
         ELSE Done(setPos([addItem(w, a.node) EXCEPT
                              !.nodes = IF Contains(@, a.node) THEN @
                                        ELSE Append(@, a.node)],
                          a.node, a.position), a)

redo_node_delete(w, a) ==
    IF a.restored_node = Nil \/ ~w.node[a.restored_node].in_scene THEN Stale(w, a)
    ELSE Done(delete_node(w, a.restored_node, FALSE), a)

redo_node_type_change(w, a) ==
    IF w.node[a.node].in_scene
    THEN Done(set_node_type(w, a.node, a.new_type), a)
    ELSE Stale(w, a)

redo_node_resize(w, a) ==
    IF w.node[a.node].in_scene
    THEN Done([w EXCEPT !.node[a.node].rect = a.new_rect], a)
    ELSE Stale(w, a)

redo_node_initial_change(w, a) ==
    IF w.node[a.node].in_scene /\ w.node[a.node].node_type = "State"
    THEN Done(set_initial_state(w, a.node, a.is_initial), a)
    ELSE Stale(w, a)

redo_edge_create_w2(w, a, e, w2) ==
    IF a.start_node = Nil \/ a.end_node = Nil THEN Stale(w, a)
    ELSE IF ~w.node[a.start_node].in_scene \/ ~w.node[a.end_node].in_scene
         THEN Stale(w, a)
    ELSE IF ~w.edge[e].in_scene
         THEN Done([w2 EXCEPT !.scene_edges = IF Contains(@, e) THEN @
                                              ELSE Append(@, e)], a)
         ELSE Done(w, a)

redo_edge_create_w1(w, a, e, w1) ==
    redo_edge_create_w2(w, a, e,
              create_control_points([w1 EXCEPT !.edge[e].in_scene = TRUE], e))

redo_edge_create_e(w, a, e) ==
    redo_edge_create_w1(w, a, e,
              set_end_node(set_start_node(w, e, a.start_node), e, a.end_node))

redo_edge_create(w, a) ==
    redo_edge_create_e(w, a, a.edge)

redo_edge_delete(w, a) ==
    IF a.restored_edge = Nil \/ ~w.edge[a.restored_edge].in_scene THEN Stale(w, a)
    ELSE Done(delete_edge(w, a.restored_edge, FALSE), a)

redo_edge_connection_change(w, a) ==
    IF w.edge[a.edge].in_scene
    THEN Done(SetConnectionOffset(w, a.edge, a.is_start, a.new_offset), a)
    ELSE Stale(w, a)

redo_edge_waypoint_change(w, a) ==
    IF w.edge[a.edge].in_scene
    THEN Done(update_path([w EXCEPT !.edge[a.edge].waypoint_ratio = a.new_ratio], a.edge), a)
    ELSE Stale(w, a)

redo_node_title_change(w, a) ==
    IF w.node[a.node].in_scene
    THEN Done([w EXCEPT !.node[a.node].title = a.new_title], a)
    ELSE Stale(w, a)

redo_edge_title_change(w, a) ==
    IF w.edge[a.edge].in_scene
    THEN Done(set_title(w, a.edge, a.new_title), a)
    ELSE Stale(w, a)

redo_node_reparent(w, a) ==
    IF ReparentTargetAlive(w, a.node)
    THEN Done(Reparent(w, a.node, a.new_parent, a.new_pos), a)
    ELSE Stale(w, a)

RedoDispatch(w, a) ==
    CASE a.type = "node_move" -> redo_node_move(w, a)
      [] a.type = "node_create" -> redo_node_create(w, a)
      [] a.type = "node_delete" -> redo_node_delete(w, a)
      [] a.type = "node_type_change" -> redo_node_type_change(w, a)
      [] a.type = "node_resize" -> redo_node_resize(w, a)
      [] a.type = "node_initial_change" -> redo_node_initial_change(w, a)
      [] a.type = "edge_create" -> redo_edge_create(w, a)
      [] a.type = "edge_delete" -> redo_edge_delete(w, a)
      [] a.type = "edge_connection_change" -> redo_edge_connection_change(w, a)
      [] a.type = "edge_waypoint_change" -> redo_edge_waypoint_change(w, a)
      [] a.type = "node_title_change" -> redo_node_title_change(w, a)
      [] a.type = "edge_title_change" -> redo_edge_title_change(w, a)
      [] a.type = "node_reparent" -> redo_node_reparent(w, a)

redo_action_r(action, r) ==
    IF r.ok
    THEN [r.w EXCEPT !.undo_stack = Push(@, r.action),
                     !.ret.applied = TRUE, !.ret.kind = action.type]
    ELSE [r.w EXCEPT !.ret.kind = action.type]

redo_action_action(w, action) ==
    redo_action_r(action, RedoDispatch([w EXCEPT !.redo_stack = Front(@)], action))

\* NodeEditorWindow.redo_action: the newest entry is popped and dispatched;
\* nothing validates it and nothing retries
redo_action(w) ==
    IF w.redo_stack = <<>> THEN w
    ELSE redo_action_action(w, Last(w.redo_stack))

NodePress_w1(w, n, w1) ==
    [w1 EXCEPT !.node[n].position_before_move = w.node[n].pos]

\* ------------------------------------------------------------------------
\* Mouse handlers of a node (view.mousePressEvent, then the node's own)
\* ------------------------------------------------------------------------
\* A left press without modifiers on node n, no edge lying under the cursor.
\* on_handle: the cursor is over n's resize handle.
NodePress(w, n, on_handle) ==
    IF on_handle
    THEN IF w.node[n].selected
         THEN [w EXCEPT !.node[n].is_resizing = TRUE,
                        !.node[n].old_rect = w.node[n].rect,
                        !.node[n].old_pos = <<0, 0>>,
                        !.node[n].rect_before_resize = w.node[n].rect]
         \* not selected: Qt's default press selects the node alone
         ELSE setSelected(ClearSelection(w), n, TRUE)
    \* on the body the view selects the node alone and brings it to the front
    ELSE NodePress_w1(w, n,
                   setZValue(IF ~w.node[n].selected
                             THEN setSelected(ClearSelection(w), n, TRUE)
                             ELSE w,
                             n, 1000))

\* QGraphicsItem.mouseMoveEvent moves the grabbed node and the selected
\* nodes, except those below a selected node
RECURSIVE AncestorSelected(_, _)
AncestorSelected_p(w, p) ==
    p # Nil /\ (w.node[p].selected \/ AncestorSelected(w, p))

AncestorSelected(w, m) ==
    AncestorSelected_p(w, w.node[m].parentItem)

MoveSet(w, n) ==
    {m \in SelectedNodes(w) \cup {n} : ~AncestorSelected(w, m)}

RECURSIVE MoveAll(_, _, _)
MoveAll_m(w, ms, delta, m) ==
    MoveAll(setPos(w, m, IAdd(w.node[m].pos, delta)), ms \ {m}, delta)

MoveAll(w, ms, delta) ==
    IF ms = {} THEN w
    ELSE MoveAll_m(w, ms, delta, CHOOSE k \in ms : \A j \in ms : k <= j)

\* a resize that does not enforce the minimum size
NodeMouseMoveUnclamped(w, n, delta) ==
    IF w.node[n].is_resizing
    THEN [w EXCEPT !.node[n].rect =
             <<w.node[n].old_rect[1] + delta[1], w.node[n].old_rect[2] + delta[2]>>]
    ELSE MoveAll(w, MoveSet(w, n), delta)

\* Node.mouseMoveEvent with the cursor `delta' away from the press point
NodeMouseMove(w, n, delta) ==
    IF w.node[n].is_resizing
    THEN [w EXCEPT !.node[n].rect =
             <<Max(min_width, w.node[n].old_rect[1] + delta[1]),
               Max(min_height, w.node[n].old_rect[2] + delta[2])>>]
    ELSE MoveAll(w, MoveSet(w, n), delta)

NodeRelease_w2(n, first, position_actually_changed, w2) ==
    IF w2.node[n].is_being_moved
    THEN IF position_actually_changed
         THEN check_and_update_parent([w2 EXCEPT !.node[n].is_being_moved = FALSE],
                                      n, first)
         ELSE [w2 EXCEPT !.node[n].is_being_moved = FALSE]
    ELSE w2

NodeRelease_position_actually_changed(n, first, w1, position_actually_changed) ==
    NodeRelease_w2(n, first, position_actually_changed,
              IF position_actually_changed
              THEN [(IF w1.node[n].in_scene
                     THEN record_node_movement(w1, n, w1.node[n].position_before_move,
                                               w1.node[n].pos)
                     ELSE w1)
                    EXCEPT !.node[n].position_before_move = None]
              ELSE w1)

\* a release that takes every gesture for a move
NodeRelease_always_changed(n, first, w1) ==
    NodeRelease_position_actually_changed(n, first, w1, TRUE)

NodeRelease_w1(n, first, w1) ==
    NodeRelease_position_actually_changed(n, first, w1,
            /\ w1.node[n].position_before_move # None
            /\ w1.node[n].position_before_move # w1.node[n].pos)

NodeRelease_resized(w, n, first, resized) ==
    NodeRelease_w1(n, first,
              IF w.node[n].is_resizing
              THEN update_z_order(
                      [(IF resized /\ w.node[n].in_scene
                        THEN record_node_resize(w, n, w.node[n].rect_before_resize,
                                                w.node[n].rect)
                        ELSE w)
                       EXCEPT !.node[n].is_resizing = FALSE,
                              !.node[n].rect_before_resize = IF resized THEN None ELSE @],
                      n)
              ELSE w)

\* Node.mouseReleaseEvent
NodeRelease(w, n, first) ==
    NodeRelease_resized(w, n, first,
                   w.node[n].is_resizing /\ w.node[n].rect_before_resize # w.node[n].rect)

edit_title_w1(w, n, new_title, w1) ==
    IF w.node[n].in_scene
    THEN record_node_title_change(w1, n, w.node[n].title, new_title)
    ELSE w1

\* Node.edit_title with the dialog confirmed on `new_title' (already stripped)
edit_title(w, n, new_title) ==
    IF new_title # "" /\ new_title # w.node[n].title
    THEN edit_title_w1(w, n, new_title, [w EXCEPT !.node[n].title = new_title])
    ELSE w

EdgePress_w1(s, e, w1) ==
    [set_start_node(w1, e, s) EXCEPT !.edge[e].in_scene = TRUE]

EdgePress_e(w, s, e) ==
    EdgePress_w1(s, e,
              [w EXCEPT !.edge = Append(@, EdgeInit(RPt(scenePos(w, s)))),
                        !.edge_start_node = s,
                        !.temp_edge = e])

\* ------------------------------------------------------------------------
\* Drawing an edge (view.mousePressEvent with Ctrl, mouseMoveEvent,
\* mouseReleaseEvent)
\* ------------------------------------------------------------------------
EdgePress(w, s) ==
    EdgePress_e(w, s, Len(w.edge) + 1)

EdgeMouseMove(w, scene_pos) ==
    IF w.temp_edge # Nil THEN set_end_pos(w, w.temp_edge, scene_pos) ELSE w

EdgeRelease_w1(w, e, w1) ==
    IF e = Nil THEN w
    ELSE [w1 EXCEPT !.temp_edge = Nil, !.edge_start_node = Nil]

\* a release that connects the edge to whatever node lies under the cursor
EdgeRelease_any_node(w, item, e) ==
    EdgeRelease_w1(w, e,
              IF item # Nil
              THEN record_edge_creation(
                      [create_control_points(set_end_node(w, e, item), e)
                          EXCEPT !.scene_edges = Append(@, e)],
                      e)
              ELSE [w EXCEPT !.edge[e].in_scene = FALSE])

EdgeRelease_e(w, item, e) ==
    EdgeRelease_w1(w, e,
              IF item # Nil /\ item # w.edge_start_node
              THEN record_edge_creation(
                      [create_control_points(set_end_node(w, e, item), e)
                          EXCEPT !.scene_edges = Append(@, e)],
                      e)
              ELSE [w EXCEPT !.edge[e].in_scene = FALSE])

\* item: the node under the cursor at release, Nil over empty space
EdgeRelease(w, item) ==
    EdgeRelease_e(w, item, w.temp_edge)

ControlDrag_offset(e, is_start, offset_before_drag, w1, offset) ==
    IF offset_before_drag # offset /\ Ctl(w1.edge[e], is_start).in_scene
    THEN record_edge_connection_change(w1, e, is_start, offset_before_drag, offset)
    ELSE w1

ControlDrag_offset_before_drag(e, is_start, offset_before_drag, w1) ==
    ControlDrag_offset(e, is_start, offset_before_drag, w1, Ctl(w1.edge[e], is_start).offset)

\* ------------------------------------------------------------------------
\* Handles of an edge
\* ------------------------------------------------------------------------
\* EdgeControlPoint press, one mouse move bringing the handle to scene
\* point p, and release
ControlDrag(w, e, is_start, p) ==
    ControlDrag_offset_before_drag(e, is_start,
                              Ctl(w.edge[e], is_start).offset,
              ControlSetPos(ClearSelection(w), e, is_start, p))

WaypointDrag_ratio_before_drag(e, ratio_before_drag, w1) ==
    IF ratio_before_drag # w1.edge[e].waypoint_ratio
       /\ w1.edge[e].waypoint_control.in_scene
    THEN record_edge_waypoint_change(w1, e, ratio_before_drag,
                                     w1.edge[e].waypoint_ratio)
    ELSE w1

\* WaypointControlPoint press, one mouse move to scene point p, and release
WaypointDrag(w, e, p) ==
    WaypointDrag_ratio_before_drag(e,
                             w.edge[e].waypoint_ratio,
              WaypointSetPos(ClearSelection(w), e, p))

EdgeTitleEdit_w1(e, new_title, w1) ==
    set_title(w1, e, new_title)

EdgeTitleEdit_orig_text(w, e, new_title, orig_text) ==
    EdgeTitleEdit_w1(e, new_title,
              IF new_title # orig_text /\ w.edge[e].in_scene
              THEN record_edge_title_change(w, e, orig_text, new_title) ELSE w)

\* EdgeTitleItem: double click, typing new_title, focus out
EdgeTitleEdit(w, e, new_title) ==
    EdgeTitleEdit_orig_text(w, e, new_title, w.edge[e].title)

\* ------------------------------------------------------------------------
\* Toolbar
\* ------------------------------------------------------------------------
RECURSIVE ApplyTypeTo(_, _, _)
ApplyTypeTo_old_type(w, ns, node_type, n, old_type, old_title) ==
    ApplyTypeTo(
       record_node_type_change(set_node_type(w, n, node_type),
                               n, old_type, node_type, old_title),
       ns \ {n}, node_type)

ApplyTypeTo_n(w, ns, node_type, n) ==
    ApplyTypeTo_old_type(w, ns, node_type, n, w.node[n].node_type, w.node[n].title)

ApplyTypeTo(w, ns, node_type) ==
    IF ns = {} THEN w
    ELSE ApplyTypeTo_n(w, ns, node_type, CHOOSE k \in ns : \A j \in ns : k <= j)

\* NodeEditorWindow.apply_node_type
apply_node_type(w, node_type) == ApplyTypeTo(w, SelectedNodes(w), node_type)

RECURSIVE ToggleInitial(_, _)
ToggleInitial_previous_state(w, ns, n, previous_state) ==
    ToggleInitial(
       IF w.node[n].node_type = "State"
       THEN set_initial_state(
               record_node_initial_change(w, n, previous_state, ~previous_state),
               n, ~previous_state)
       ELSE w,
       ns \ {n})

ToggleInitial_n(w, ns, n) ==
    ToggleInitial_previous_state(w, ns, n, w.node[n].is_initial)

ToggleInitial(w, ns) ==
    IF ns = {} THEN w
    ELSE ToggleInitial_n(w, ns, CHOOSE k \in ns : \A j \in ns : k <= j)

\* NodeEditorWindow.mark_as_initial
mark_as_initial(w) == ToggleInitial(w, SelectedNodes(w))

\* NodeEditorWindow.delete_selected_items
RECURSIVE DeleteSelectedNodes(_, _)
DeleteSelectedNodes_n(w, ns, n) ==
    DeleteSelectedNodes(delete_node(w, n, TRUE), ns \ {n})

DeleteSelectedNodes(w, ns) ==
    IF ns = {} THEN w
    ELSE DeleteSelectedNodes_n(w, ns, CHOOSE k \in ns : \A j \in ns : k <= j)

RECURSIVE DeleteSelectedEdges(_, _)
DeleteSelectedEdges_e(w, es, e) ==
    DeleteSelectedEdges(delete_edge(w, e, TRUE), es \ {e})

DeleteSelectedEdges(w, es) ==
    IF es = {} THEN w
    ELSE DeleteSelectedEdges_e(w, es, CHOOSE k \in es : \A j \in es : k <= j)

delete_selected_items(w) ==
    DeleteSelectedNodes(DeleteSelectedEdges(w, SelectedEdges(w)), SelectedNodes(w))

\* ------------------------------------------------------------------------
\* NodeEditorWindow.load_design
\* ------------------------------------------------------------------------
\* A design file: nodes in the order save_design writes them (a parent
\* before its children, `parent' the index of the parent in the file, Nil
\* for a top-level node) and edges between indices of nodes.

\* first pass: the nodes are built without parents
RECURSIVE LoadNodes(_, _)
LoadNodes_w2(ds, d, n, w2) ==
    LoadNodes([w2 EXCEPT !.node[n].title = d.title,
                         !.node[n].is_initial = d.is_initial,
                         !.node[n].is_container = d.is_container],
              Tail(ds))

LoadNodes_w1(ds, d, n, w1) ==
    LoadNodes_w2(ds, d, n,
              IF d.node_type # "None" THEN set_node_type(w1, n, d.node_type) ELSE w1)

LoadNodes_d(w, ds, d, n) ==
    LoadNodes_w1(ds, d, n,
              [w EXCEPT !.node = Append(@, [NodeInit(w, d.title, d.pos, Nil, n)
                                               EXCEPT !.rect = d.rect])])

LoadNodes(w, ds) ==
    IF ds = <<>> THEN w
    ELSE LoadNodes_d(w, ds, Head(ds), Len(w.node) + 1)

\* second pass: children join their parents, the others the scene
RECURSIVE LoadParents(_, _, _)
LoadParents(w, ds, n) ==
    IF n > Len(ds) THEN w
    ELSE LoadParents(IF ds[n].parent # Nil
                     THEN add_child_node(w, ds[n].parent, n, ds[n].pos)
                     ELSE [addItem(w, n) EXCEPT !.nodes = Append(@, n)],
                     ds, n + 1)

RECURSIVE LoadEdges(_, _)
LoadEdges_w5(ds, e, w5) ==
    LoadEdges([update_path(w5, e) EXCEPT !.scene_edges = Append(@, e)],
              Tail(ds))

LoadEdges_w4(ds, d, e, w4) ==
    LoadEdges_w5(ds, e,
              IF d.end_offset # None
              THEN [w4 EXCEPT !.edge[e].end_control.offset = d.end_offset,
                              !.edge[e].end_offset = d.end_offset]
              ELSE w4)

LoadEdges_w3(ds, d, e, w3) ==
    LoadEdges_w4(ds, d, e,
              IF d.start_offset # None
              THEN [w3 EXCEPT !.edge[e].start_control.offset = d.start_offset,
                              !.edge[e].start_offset = d.start_offset]
              ELSE w3)

LoadEdges_w2(ds, d, e, w2) ==
    LoadEdges_w3(ds, d, e,
              create_control_points(
                 [w2 EXCEPT !.edge[e].waypoint_ratio = d.waypoint_ratio,
                            !.edge[e].in_scene = TRUE], e))

LoadEdges_w1(ds, d, e, w1) ==
    LoadEdges_w2(ds, d, e,
              set_title(set_end_node(set_start_node(w1, e, d.start_node),
                                     e, d.end_node), e, d.title))

LoadEdges_d(w, ds, d, e) ==
    LoadEdges_w1(ds, d, e,
              [w EXCEPT !.edge = Append(@, EdgeInit(RPt(scenePos(w, d.start_node))))])

LoadEdges(w, ds) ==
    IF ds = <<>> THEN w
    ELSE LoadEdges_d(w, ds, Head(ds), Len(w.edge) + 1)

load_design_w2(w2) ==
    [w2 EXCEPT !.undo_stack = <<>>, !.redo_stack = <<>>]

load_design_w1(design_data, w1) ==
    load_design_w2(LoadEdges(w1, design_data.edges))

load_design_w0(design_data, w0) ==
    load_design_w1(design_data,
              LoadParents(LoadNodes(w0, design_data.nodes), design_data.nodes, 1))

\* scene.clear() destroys every item; with both stacks cleared nothing
\* refers to the old items any more
load_design(w, design_data) ==
    load_design_w0(design_data,
              [w EXCEPT !.node = <<>>, !.edge = <<>>, !.nodes = <<>>,
                        !.scene_edges = <<>>])

\* ------------------------------------------------------------------------
\* load_design on the file the dialog names. The keys the loops read with
\* [] raise KeyError when a document lacks them; the except clause shows a
\* message and restores nothing.
\* ------------------------------------------------------------------------
RequiredNodeFields == {"pos", "title", "rect"}
RequiredEdgeFields == {"title", "waypoint_ratio"}

NodeRaises(d) == ~(RequiredNodeFields \subseteq DOMAIN d)
EdgeRaises(d) == ~(RequiredEdgeFields \subseteq DOMAIN d)

\* the entries ahead of the first one that raises
RECURSIVE NodesBefore(_)
NodesBefore(ds) ==
    IF ds = <<>> \/ NodeRaises(Head(ds)) THEN <<>>
    ELSE <<Head(ds)>> \o NodesBefore(Tail(ds))

RECURSIVE EdgesBefore(_)
EdgesBefore(ds) ==
    IF ds = <<>> \/ EdgeRaises(Head(ds)) THEN <<>>
    ELSE <<Head(ds)>> \o EdgesBefore(Tail(ds))

\* the first pass raises at node data d: the Node object is built once pos
\* and title are read, and is in no scene
LoadNodesRaised_d(w, d) ==
    IF {"pos", "title"} \subseteq DOMAIN d
    THEN [w EXCEPT !.node = Append(@, NodeInit(w, d.title, d.pos, Nil,
                                               Len(w.node) + 1))]
    ELSE w

LoadNodesRaised(w0, ds) ==
    LoadNodesRaised_d(LoadNodes(w0, NodesBefore(ds)),
                      ds[Len(NodesBefore(ds)) + 1])

\* the edge loop raises at edge data d: the Edge object is bound to both
\* nodes before its title is read, and is in no scene
LoadEdgesRaised_w1(d, e, w1) ==
    IF "title" \in DOMAIN d THEN set_title(w1, e, d.title) ELSE w1

LoadEdgesRaised_d(w, d, e) ==
    LoadEdgesRaised_w1(d, e,
        set_end_node(
            set_start_node(
                [w EXCEPT !.edge = Append(@, EdgeInit(RPt(scenePos(w, d.start_node))))],
                e, d.start_node),
            e, d.end_node))

LoadEdgesRaised_w(w, ds) ==
    LoadEdgesRaised_d(w, ds[Len(EdgesBefore(ds)) + 1], Len(w.edge) + 1)

LoadEdgesRaised(w1, ds) ==
    LoadEdgesRaised_w(LoadEdges(w1, EdgesBefore(ds)), ds)

\* the document's references counted from the `base' objects that went
\* before it
RebasedNode(d, base) ==
    IF "parent" \in DOMAIN d /\ d.parent # Nil
    THEN [d EXCEPT !.parent = @ + base] ELSE d

RebasedNodes(ds, base) ==
    AsSeq([i \in 1..Len(ds) |-> RebasedNode(ds[i], base)])

RebasedEdges(ds, base) ==
    AsSeq([i \in 1..Len(ds) |->
        [ds[i] EXCEPT !.start_node = @ + base, !.end_node = @ + base]])

Filler(base) == AsSeq([i \in 1..base |-> None])

load_design_raised_base(design_data, w0, base) ==
    IF NodesBefore(design_data.nodes) # design_data.nodes
    THEN LoadNodesRaised(w0, design_data.nodes)
    ELSE LoadEdgesRaised(
             LoadParents(LoadNodes(w0, design_data.nodes),
                         Filler(base) \o RebasedNodes(design_data.nodes, base),
                         base + 1),
             RebasedEdges(design_data.edges, base))

load_design_raised(design_data, w0) ==
    load_design_raised_base(design_data, w0, Len(w0.node))

\* scene.clear() deletes every item; the Node and Edge objects that the
\* undo and redo stacks hold stay behind, in no scene
clear(w) ==
    [w EXCEPT
       !.node = AsSeq([m \in DOMAIN w.node |-> [w.node[m] EXCEPT !.in_scene = FALSE]]),
       !.edge = AsSeq([e \in DOMAIN w.edge |->
                   [w.edge[e] EXCEPT !.in_scene = FALSE,
                                     !.start_control.in_scene = FALSE,
                                     !.end_control.in_scene = FALSE,
                                     !.waypoint_control.in_scene = FALSE,
                                     !.title_in_scene = FALSE]]),
       !.nodes = <<>>,
       !.scene_edges = <<>>]

\* the document raises KeyError in one of the loops
Raises(design_data) ==
    \/ NodesBefore(design_data.nodes) # design_data.nodes
    \/ EdgesBefore(design_data.edges) # design_data.edges

\* the try block raises: open() on a missing file, json.load on text that
\* is no JSON, or a loop on a document that lacks a key
LoadFails(file) ==
    /\ file.chosen
    /\ ~file.readable \/ ~file.valid_json \/ Raises(file.design_data)

\* load_design with the dialog's answer `file'
load_design_file(w, file) ==
    IF ~file.chosen \/ ~file.readable \/ ~file.valid_json THEN w
    ELSE IF Raises(file.design_data)
         THEN load_design_raised(file.design_data, clear(w))
         ELSE load_design(w, file.design_data)

\* ------------------------------------------------------------------------
\* save_design, and load_design on the document it wrote: the document
\* names a node by the id() of its object, and the loader finds nodes
\* through id_to_node
\* ------------------------------------------------------------------------
\* collect_all_nodes: every node of the list, its descendants behind it
RECURSIVE collect_all_nodes(_, _)
collect_all_nodes(w, node_list) ==
    IF node_list = <<>> THEN <<>>
    ELSE <<Head(node_list)>>
         \o collect_all_nodes(w, w.node[Head(node_list)].child_nodes)
         \o collect_all_nodes(w, Tail(node_list))

SavedNode(w, n) ==
    [title |-> w.node[n].title,
     pos |-> w.node[n].pos,
     rect |-> w.node[n].rect,
     node_type |-> w.node[n].node_type,
     is_container |-> w.node[n].is_container,
     is_initial |-> w.node[n].is_initial,
     parent_id |-> w.node[n].parent_node,
     id |-> n]

SavedOffset(ed, is_start) ==
    IF RTruthy(EndOffset(ed, is_start)) THEN EndOffset(ed, is_start)
    ELSE IF Ctl(ed, is_start).exists THEN Ctl(ed, is_start).offset
    ELSE None

SavedEdge(w, e) ==
    [start_node_id |-> w.edge[e].start_node,
     end_node_id |-> w.edge[e].end_node,
     title |-> w.edge[e].title,
     waypoint_ratio |-> w.edge[e].waypoint_ratio,
     start_offset |-> SavedOffset(w.edge[e], TRUE),
     end_offset |-> SavedOffset(w.edge[e], FALSE)]

save_design_all_nodes(w, all_nodes) ==
    [nodes |-> AsSeq([i \in 1..Len(all_nodes) |-> SavedNode(w, all_nodes[i])]),
     edges |-> AsSeq([i \in 1..Len(w.scene_edges) |-> SavedEdge(w, w.scene_edges[i])])]

\* the document save_design writes
save_design(w) == save_design_all_nodes(w, collect_all_nodes(w, w.nodes))

\* id_to_node: the object built last for an id; the objects of a fresh load
\* are numbered as the document lists them
InIdToNode(ds, id) == \E i \in DOMAIN ds : ds[i].id = id

id_to_node(ds, id) ==
    CHOOSE i \in DOMAIN ds :
        /\ ds[i].id = id
        /\ \A j \in DOMAIN ds : ds[j].id = id => j <= i

\* second pass of load_design over a saved document
RECURSIVE LoadParentsById(_, _, _)
LoadParentsById_node(w, ds, i, n) ==
    LoadParentsById(
        IF ds[i].parent_id # Nil /\ InIdToNode(ds, ds[i].parent_id)
        THEN add_child_node(w, id_to_node(ds, ds[i].parent_id), n, ds[i].pos)
        ELSE [addItem(w, n) EXCEPT !.nodes = Append(@, n)],
        ds, i + 1)

LoadParentsById(w, ds, i) ==
    IF i > Len(ds) THEN w
    ELSE LoadParentsById_node(w, ds, i, id_to_node(ds, ds[i].id))

\* the edges of a saved document whose two ends id_to_node knows
RECURSIVE ResolveEdges(_, _)
ResolveEdges_d(ds, es, d) ==
    (IF InIdToNode(ds, d.start_node_id) /\ InIdToNode(ds, d.end_node_id)
     THEN <<[start_node |-> id_to_node(ds, d.start_node_id),
             end_node |-> id_to_node(ds, d.end_node_id),
             title |-> d.title,
             waypoint_ratio |-> d.waypoint_ratio,
             start_offset |-> d.start_offset,
             end_offset |-> d.end_offset]>>
     ELSE <<>>)
    \o ResolveEdges(ds, Tail(es))

ResolveEdges(ds, es) ==
    IF es = <<>> THEN <<>> ELSE ResolveEdges_d(ds, es, Head(es))

load_saved_w0(design_data, w0) ==
    load_design_w2(
        LoadEdges(LoadParentsById(LoadNodes(w0, design_data.nodes),
                                  design_data.nodes, 1),
                  ResolveEdges(design_data.nodes, design_data.edges)))

\* load_design on a document that save_design wrote
load_saved(w, design_data) ==
    load_saved_w0(design_data,
              [w EXCEPT !.node = <<>>, !.edge = <<>>, !.nodes = <<>>,
                        !.scene_edges = <<>>])

\* ------------------------------------------------------------------------
\* The static exporter (sm_json_to_html.py) on the nodes ds and an edge of a
\* document; node_map holds the entry read last for an id
\* ------------------------------------------------------------------------
title_bar == 30

\* the positions of the ancestors from parent_id upwards, a title bar added
\* for each
RECURSIVE AncestorsOffset(_, _)
AncestorsOffset_parent(ds, parent) ==
    IAdd(IAdd(parent.pos, <<0, title_bar>>), AncestorsOffset(ds, parent.parent_id))

AncestorsOffset(ds, parent_id) ==
    IF parent_id = Nil \/ ~InIdToNode(ds, parent_id) THEN <<0, 0>>
    ELSE AncestorsOffset_parent(ds, ds[id_to_node(ds, parent_id)])

calculate_absolute_position(ds, d) ==
    IAdd(d.pos, AncestorsOffset(ds, d.parent_id))

\* |rel| / (size / 2), 0 for a node without extent
Norm(rel, size) ==
    IF size > 0 THEN RDiv(RAbs(rel), Q(size, 2)) ELSE R(0)

generate_svg_arrow_norm(start, end, waypoint_x, norm_x, norm_y) ==
    IF RLt(norm_y, norm_x)
    THEN <<start, <<waypoint_x, start[2]>>, <<waypoint_x, end[2]>>, end>>
    ELSE <<start, <<waypoint_x, start[2]>>, <<waypoint_x, end[2]>>>>
         \o (IF RLt(R(1), RAbs(RSub(end[1], waypoint_x))) THEN <<end>> ELSE <<>>)

generate_svg_arrow_center(end_node, start, end, waypoint_x, center) ==
    generate_svg_arrow_norm(start, end, waypoint_x,
        Norm(RSub(end[1], center[1]), end_node.rect[1]),
        Norm(RSub(end[2], center[2]), end_node.rect[2]))

generate_svg_arrow_end(end_node, waypoint_ratio, start, end, end_node_pos) ==
    generate_svg_arrow_center(end_node, start, end,
        RAdd(start[1], RMul(RSub(end[1], start[1]), waypoint_ratio)),
        <<RAdd(R(end_node_pos[1]), Q(end_node.rect[1], 2)),
          RAdd(R(end_node_pos[2]), Q(end_node.rect[2], 2))>>)

generate_svg_arrow_pos(edge_data, end_node, start_node_pos, end_node_pos) ==
    generate_svg_arrow_end(end_node, edge_data.waypoint_ratio,
        PAdd(RPt(start_node_pos), edge_data.start_offset),
        PAdd(RPt(end_node_pos), edge_data.end_offset),
        end_node_pos)

generate_svg_arrow_nodes(ds, edge_data, start_node, end_node) ==
    generate_svg_arrow_pos(edge_data, end_node,
        calculate_absolute_position(ds, start_node),
        calculate_absolute_position(ds, end_node))

\* the points of the path that generate_svg_arrow draws for an edge, none
\* when node_map lacks an end of the edge
generate_svg_arrow(ds, edge_data) ==
    IF ~InIdToNode(ds, edge_data.start_node_id)
       \/ ~InIdToNode(ds, edge_data.end_node_id)
    THEN <<>>
    ELSE generate_svg_arrow_nodes(ds, edge_data,
             ds[id_to_node(ds, edge_data.start_node_id)],
             ds[id_to_node(ds, edge_data.end_node_id)])

\* what the exporter shows of a document: for each edge its two ends as
\* the exporter places them, its waypoint ratio and its path
ConnectionPoint(ds, node_id, offset) ==
    IF InIdToNode(ds, node_id)
    THEN PAdd(RPt(calculate_absolute_position(ds, ds[id_to_node(ds, node_id)])),
              offset)
    ELSE None

ExportedEdge(ds, edge_data) ==
    [start |-> ConnectionPoint(ds, edge_data.start_node_id, edge_data.start_offset),
     end |-> ConnectionPoint(ds, edge_data.end_node_id, edge_data.end_offset),
     waypoint_ratio |-> edge_data.waypoint_ratio,
     path |-> generate_svg_arrow(ds, edge_data)]

generate_edges(design_data) ==
    AsSeq([i \in 1..Len(design_data.edges) |->
              ExportedEdge(design_data.nodes, design_data.edges[i])])

\* ------------------------------------------------------------------------
\* What the user sees of a design: the nodes and edges of the scene, the
\* nodes named by their origin
\* ------------------------------------------------------------------------
LiveNodes(w) == {n \in DOMAIN w.node : w.node[n].in_scene}
LiveEdges(w) == {e \in DOMAIN w.edge : w.edge[e].in_scene /\ e # w.temp_edge}

OriginOf(w, n) == IF n = Nil THEN Nil ELSE w.node[n].origin

NodeView(w, n) ==
    [id |-> w.node[n].origin,
     title |-> w.node[n].title,
     pos |-> w.node[n].pos,
     rect |-> w.node[n].rect,
     node_type |-> w.node[n].node_type,
     is_initial |-> w.node[n].is_initial,
     parent |-> OriginOf(w, w.node[n].parent_node),
     children |-> {OriginOf(w, c) : c \in Range(w.node[n].child_nodes)}]

EdgeView(w, e) ==
    [start |-> OriginOf(w, w.edge[e].start_node),
     end |-> OriginOf(w, w.edge[e].end_node),
     title |-> w.edge[e].title,
     waypoint_ratio |-> w.edge[e].waypoint_ratio,
     start_offset |-> get_endpoint_offset(w, e, TRUE),
     end_offset |-> get_endpoint_offset(w, e, FALSE)]

Graph(w) ==
    [nodes |-> {NodeView(w, n) : n \in LiveNodes(w)},
     node_count |-> Cardinality(LiveNodes(w)),
     edges |-> {EdgeView(w, e) : e \in LiveEdges(w)},
     edge_count |-> Cardinality(LiveEdges(w))]

\* the nodes an undo record refers to
NodeRefs(w, r) ==
    IF r.type \in {"node_move", "node_type_change", "node_resize",
                   "node_initial_change", "node_title_change"}
    THEN {r.node}
    ELSE IF r.type = "node_create" THEN {r.node, r.parent} \ {Nil}
    ELSE IF r.type = "node_reparent"
         THEN {r.node, r.old_parent, r.new_parent} \ {Nil}
    ELSE IF r.type = "node_delete" THEN {r.node_data.parent} \ {Nil}
    ELSE IF r.type = "edge_delete"
         THEN {r.edge_data.start_node, r.edge_data.end_node} \ {Nil}
    ELSE {w.edge[r.edge].start_node, w.edge[r.edge].end_node} \ {Nil}

\* a stack as the user could tell it apart from another: the kinds of its
\* entries and the origins of the nodes they refer to
StackView(w, stack) ==
    AsSeq([i \in 1..Len(stack) |->
        [type |-> stack[i].type,
         refs |-> {OriginOf(w, n) : n \in NodeRefs(w, stack[i])}]])

\* ------------------------------------------------------------------------
\* Bounds and inputs of the exploration
\* ------------------------------------------------------------------------
MaxNodes == 4
MaxEdges == 3
MaxSteps == 4
PairSteps == 5
NestSteps == 5
DropSteps == 4
EdgeSteps == 8
StepCap == 10
DeepSteps == 4
SizeSteps == 5
TypeSteps == 5
TreeSteps == 4
RouteSteps == 4
WaySteps == 5
BorderSteps == 4
OrderSteps == 5
LoadSteps == 4
SaveSteps == 3
ExportSteps == 3
SkipSteps == 5
MaxRounds == 1
RepeatSteps == 4 + 4 * MaxRounds
StaleSteps == 5
DangleSteps == 4
DangleUndos == 5
MaxCoord == 1000
MaxTrail == 3

\* scene points the cursor is released at
Positions == {<<0, 0>>, <<300, 0>>, <<350, 50>>}
ResizeDeltas == {<<200, 200>>, <<-200, -200>>}
Titles == {"T"}
EdgeTitles == {"E", "F"}
NodeTypes == {"StateMachine", "State"}

DocNode(title, pos, rect, is_container, parent) ==
    [title |-> title, pos |-> pos, rect |-> rect, node_type |-> "None",
     is_initial |-> FALSE, is_container |-> is_container, parent |-> parent]

DocEdge(s, t, title) ==
    [start_node |-> s, end_node |-> t, title |-> title, waypoint_ratio |-> Q(1, 2),
     start_offset |-> None, end_offset |-> None]

\* two nodes side by side joined by an edge
DocPair ==
    [nodes |-> <<DocNode("A", <<0, 0>>, <<200, 100>>, FALSE, Nil),
                 DocNode("B", <<300, 0>>, <<200, 100>>, FALSE, Nil)>>,
     edges |-> <<DocEdge(1, 2, "go")>>]

\* a node beside a container holding one child
DocNest ==
    [nodes |-> <<DocNode("A", <<0, 0>>, <<200, 100>>, FALSE, Nil),
                 DocNode("N", <<300, 0>>, <<400, 300>>, TRUE, Nil),
                 DocNode("C", <<50, 50>>, <<200, 100>>, FALSE, 2)>>,
     edges |-> <<>>]

\* a container G holding a container P holding a node C
DocDeep ==
    [nodes |-> <<DocNode("G", <<0, 0>>, <<600, 500>>, TRUE, Nil),
                 DocNode("P", <<50, 50>>, <<300, 200>>, TRUE, 1),
                 DocNode("C", <<20, 50>>, <<200, 100>>, FALSE, 2)>>,
     edges |-> <<>>]

\* a node joined by an edge to the child a container holds
DocTree ==
    [nodes |-> <<DocNode("A", <<0, 0>>, <<200, 100>>, FALSE, Nil),
                 DocNode("N", <<300, 0>>, <<400, 300>>, TRUE, Nil),
                 DocNode("C", <<50, 50>>, <<200, 100>>, FALSE, 2)>>,
     edges |-> <<DocEdge(1, 3, "in")>>]

Documents == {DocPair, DocNest}

\* DocPair with the rect of its second node left out
DocNoRect ==
    [nodes |-> <<DocNode("A", <<0, 0>>, <<200, 100>>, FALSE, Nil),
                 [title |-> "B", pos |-> <<300, 0>>, node_type |-> "None",
                  is_initial |-> FALSE, is_container |-> FALSE, parent |-> Nil]>>,
     edges |-> <<>>]

\* DocPair with the title of its edge left out
DocNoEdgeTitle ==
    [nodes |-> DocPair.nodes,
     edges |-> <<[start_node |-> 1, end_node |-> 2, waypoint_ratio |-> Q(1, 2),
                  start_offset |-> None, end_offset |-> None]>>]

NoDoc == [nodes |-> <<>>, edges |-> <<>>]

\* answers of the Load Design dialog: cancelled, a path that cannot be
\* opened, a file that holds no JSON, a file holding a document
Cancelled ==
    [chosen |-> FALSE, readable |-> FALSE, valid_json |-> FALSE, design_data |-> NoDoc]
MissingFile ==
    [chosen |-> TRUE, readable |-> FALSE, valid_json |-> FALSE, design_data |-> NoDoc]
BrokenFile ==
    [chosen |-> TRUE, readable |-> TRUE, valid_json |-> FALSE, design_data |-> NoDoc]
FileOf(design_data) ==
    [chosen |-> TRUE, readable |-> TRUE, valid_json |-> TRUE,
     design_data |-> design_data]

\* design files for the exporter: A beside and above B, one edge from the
\* right side of A to a point of B's border
ExportNode(id, title, pos, parent_id) ==
    [title |-> title, pos |-> pos, rect |-> <<200, 100>>, node_type |-> "State",
     is_container |-> FALSE, is_initial |-> FALSE, parent_id |-> parent_id,
     id |-> id]

ExportDoc(waypoint_ratio, end_offset) ==
    [nodes |-> <<ExportNode(1, "A", <<0, 0>>, Nil),
                 ExportNode(2, "B", <<300, 200>>, Nil)>>,
     edges |-> <<[start_node_id |-> 1, end_node_id |-> 2, title |-> "go",
                  waypoint_ratio |-> waypoint_ratio,
                  start_offset |-> RPt(<<200, 50>>),
                  end_offset |-> end_offset]>>]

ExportDocs ==
    {ExportDoc(r, o) : r \in {Q(1, 2), Q(199, 200), R(1)},
                       o \in {RPt(<<0, 50>>), RPt(<<100, 0>>)}}

Files ==
    {Cancelled, MissingFile, BrokenFile, FileOf(DocPair), FileOf(DocNoRect),
     FileOf(DocNoEdgeTitle)}

\* ------------------------------------------------------------------------
\* History of the last steps
\* ------------------------------------------------------------------------
NoRet == [applied |-> FALSE, skipped |-> 0, kind |-> "none"]

NoHist ==
    [steps |-> 0,          \* steps taken since the start, up to StepCap
     op |-> "init",        \* the last step
     act |-> "none",       \* the last user action that pushed a record
     n |-> Nil,            \* the node the last step acted on
     ret |-> NoRet,        \* outcome of the last undo / redo call
     recorded |-> FALSE,   \* the last step was a user action that pushed a record
     pushed |-> 0,         \* records pushed by `act'
     pre |-> None,         \* Graph before `act'
     post |-> None,        \* Graph after `act'
     stacks |-> None,      \* views of both stacks after `act'
     trail |-> <<"x">>,    \* undo ("u") and redo ("r") calls since `act'
     choices |-> {},       \* least-area containers when the last drag ended
     moved |-> FALSE,      \* the last drag changed the position of n
     at |-> None,          \* scene position of n when the drop or the menu
                           \* command began to look at its parent
     attached |-> 0,       \* edges at the node `act' deleted
     prev_undo |-> <<>>,   \* undo_stack before the last step
     prev_redo |-> <<>>,   \* redo_stack before the last step
     svg |-> <<>>]         \* edges of the page the last export wrote

Pushed(w2) ==
    IF Len(w2.undo_stack) > Len(undo_stack) THEN Len(w2.undo_stack) - Len(undo_stack)
    ELSE IF w2.undo_stack # undo_stack THEN 1 ELSE 0

\* history after a user action that led to world w2
UserHist(op, n, w2) ==
    IF Pushed(w2) > 0
    THEN [NoHist EXCEPT !.op = op, !.act = op, !.n = n, !.recorded = TRUE,
                        !.pushed = Pushed(w2),
                        !.pre = Graph(World), !.post = Graph(w2),
                        !.stacks = <<StackView(w2, w2.undo_stack),
                                     StackView(w2, w2.redo_stack)>>,
                        !.trail = <<>>,
                        !.prev_undo = undo_stack, !.prev_redo = redo_stack]
    ELSE [NoHist EXCEPT !.op = op, !.n = n,
                        !.prev_undo = undo_stack, !.prev_redo = redo_stack]

\* the trails that are followed: undo calls only, or one undo and one redo
NextTrail(trail, mark) ==
    IF trail = <<"x">> THEN <<"x">>
    ELSE IF mark = "u" /\ Len(trail) < MaxTrail /\ \A i \in 1..Len(trail) : trail[i] = "u"
         THEN Append(trail, "u")
    ELSE IF mark = "r" /\ trail = <<"u">> THEN <<"u", "r">>
    ELSE <<"x">>

\* history after an undo ("u") or a redo ("r") that led to world w2
ReplayHist(op, mark, w2) ==
    IF NextTrail(hist.trail, mark) = <<"x">>
    THEN [NoHist EXCEPT !.op = op, !.ret = w2.ret,
                        !.prev_undo = undo_stack, !.prev_redo = redo_stack]
    ELSE [hist EXCEPT !.op = op, !.n = Nil, !.ret = w2.ret, !.recorded = FALSE,
                      !.trail = NextTrail(@, mark),
                      !.choices = {}, !.moved = FALSE, !.at = None,
                      !.prev_undo = undo_stack, !.prev_redo = redo_stack]

\* the exploration stays within the bounds
Bounded(w2) ==
    /\ Len(w2.node) <= MaxNodes
    /\ Len(w2.edge) <= MaxEdges
    /\ \A n \in DOMAIN w2.node :
          Abs(w2.node[n].pos[1]) <= MaxCoord /\ Abs(w2.node[n].pos[2]) <= MaxCoord

Commit(w2, h) ==
    /\ Bounded(w2)
    /\ node' = w2.node
    /\ edge' = w2.edge
    /\ nodes' = w2.nodes
    /\ scene_edges' = w2.scene_edges
    /\ undo_stack' = w2.undo_stack
    /\ redo_stack' = w2.redo_stack
    /\ title_seq' = w2.title_seq
    /\ temp_edge' = w2.temp_edge
    /\ edge_start_node' = w2.edge_start_node
    /\ hist' = [h EXCEPT !.steps = IF hist.steps < StepCap THEN hist.steps + 1 ELSE StepCap]

\* a user action `op' on node n that led to world w2
Step(op, n, w2) == Commit(w2, UserHist(op, n, w2))

\* a user action that created the newest node of w2
StepNew(op, w2) == Step(op, Len(w2.node), w2)

\* an undo ("u") or a redo ("r") that led to world w2
Replay(op, mark, w2) == Commit(w2, ReplayHist(op, mark, w2))

\* an exploration stops after k steps
Within(k) == hist.steps < k

Visible == LiveNodes(World)
VisibleEdges == LiveEdges(World)

\* ------------------------------------------------------------------------
\* Actions: one per user gesture or command
\* ------------------------------------------------------------------------
Init ==
    /\ node = <<>>
    /\ edge = <<>>
    /\ nodes = <<>>
    /\ scene_edges = <<>>
    /\ undo_stack = <<>>
    /\ redo_stack = <<>>
    /\ title_seq = 1
    /\ temp_edge = Nil
    /\ edge_start_node = Nil
    /\ hist = NoHist

\* File > Load Design
LoadDesignFrom(docs) ==
    \E d \in docs :
        Commit(load_design(World, d), [NoHist EXCEPT !.op = "load"])

LoadDesign == LoadDesignFrom(Documents)

\* File > Save Design, then File > Load Design on the file just written
SaveThenLoad ==
    /\ Visible # {}
    /\ Commit(load_saved(World, save_design(World)),
              [NoHist EXCEPT !.op = "reload",
                             !.prev_undo = undo_stack,
                             !.prev_redo = redo_stack])

\* every edge of the document carries both offsets (generate_svg_arrow
\* subscripts them)
Exportable(design_data) ==
    \A i \in DOMAIN design_data.edges :
        /\ design_data.edges[i].start_offset # None
        /\ design_data.edges[i].end_offset # None

\* sm_json_to_html.py run on a design file of ds, or on the file that
\* File > Save Design writes of the design in the editor
ExportDesign(ds) ==
    \E design_data \in ds \cup {save_design(World)} :
        /\ Exportable(design_data)
        /\ design_data.edges # <<>>
        /\ Commit(World, [NoHist EXCEPT !.op = "export",
                                        !.svg = generate_edges(design_data),
                                        !.prev_undo = undo_stack,
                                        !.prev_redo = redo_stack])

\* File > Load Design, the dialog answering with a file of fs
LoadDesignFile(fs) ==
    \E file \in fs :
        Commit(load_design_file(World, file),
               [NoHist EXCEPT !.op = IF ~file.chosen THEN "load_cancelled"
                                     ELSE IF LoadFails(file) THEN "load_failed"
                                     ELSE "load",
                              !.prev_undo = undo_stack,
                              !.prev_redo = redo_stack])

\* context menu on empty space, at a scene point of ps > Add Node
AddNodeAt(ps) ==
    \E p \in ps :
        /\ StepNew("add_node", add_node(World, p))

AddNode == AddNodeAt(Positions)

\* context menu on a node, at a scene point of ps > Add Child Node
AddChildNodeAt(ps) ==
    \E parent \in Visible : \E p \in ps :
        /\ StepNew("add_child_node", view_add_child_node(World, parent, p))

AddChildNode == AddChildNodeAt(Positions)

RemoveFromParent_w2(n, w2) ==
    Commit(w2, [UserHist("remove_from_parent", n, w2) EXCEPT !.at = scenePos(World, n)])

\* context menu on a node with a parent > Remove from Parent
RemoveFromParent ==
    \E n \in Visible :
        /\ node[n].parent_node # Nil
        /\ RemoveFromParent_w2(n, view_remove_node_from_parent(World, n))

DeleteNode_w2(n, w2, attached) ==
    Commit(w2, [UserHist("delete_node", n, w2) EXCEPT !.attached = attached])

\* context menu on a node > Delete Node
DeleteNode ==
    \E n \in Visible :
        /\ DeleteNode_w2(n,
                     delete_node(World, n, TRUE),
                           Cardinality({i \in 1..Len(scene_edges) :
                              \/ edge[scene_edges[i]].start_node = n
                              \/ edge[scene_edges[i]].end_node = n}))

\* toolbar > Delete, with one item selected
DeleteSelected ==
    /\ Cardinality(SelectedNodes(World)) + Cardinality(SelectedEdges(World)) = 1
    /\ Step("delete_selected", Nil, delete_selected_items(World))

\* press and release on the body of a node without moving
ClickNode ==
    \E n \in Visible :
        Step("click", n, NodeRelease(NodePress(World, n, FALSE), n, Nil))

\* press and release on empty space: the view clears the selection
ClickSpace ==
    /\ SelectedNodes(World) \cup SelectedEdges(World) # {}
    /\ Step("click_space", Nil, ClearSelection(World))

\* a drag of node n ended in the world that releasing in w2 gives, `first'
\* being the container the release code meets first
DragEnd(n, w2, first) ==
    Commit(NodeRelease(w2, n, first),
           [UserHist("drag", n, NodeRelease(w2, n, first))
              EXCEPT !.choices = FirstChoices(w2, n),
                     !.moved = w2.node[n].pos # node[n].pos,
                     !.at = scenePos(w2, n)])

\* the release of a drag of node n that the mouse moves left in world w2
DragMove(n, w2) ==
    \E first \in FirstChoices(w2, n) : DragEnd(n, w2, first)

\* press on the body of a node n of ns, move to a scene point p of ps,
\* release
DragNodesTo(ns, ps) ==
    \E n \in ns \cap Visible : \E p \in ps :
        /\ p # scenePos(World, n)
        /\ DragMove(n, NodeMouseMove(NodePress(World, n, FALSE), n,
                                     ISub(p, scenePos(World, n))))

DragNodeTo(ps) == DragNodesTo(Visible, ps)

DragNode == DragNodeTo(Positions)

\* the same gesture begun on the resize handle of a node that is not
\* selected: Qt selects the node and moves it
HandleDragNodeTo(ps) ==
    \E n \in Visible : \E p \in ps :
        /\ ~node[n].selected
        /\ p # scenePos(World, n)
        /\ DragMove(n, NodeMouseMove(NodePress(World, n, TRUE), n,
                                     ISub(p, scenePos(World, n))))

HandleDragNode == HandleDragNodeTo(Positions)

\* press on the resize handle of a selected node, move, release
ResizeNodeBy(ds) ==
    \E n \in Visible : \E delta \in ds :
        /\ node[n].selected
        /\ Step("resize", n,
                NodeRelease(NodeMouseMove(NodePress(World, n, TRUE), n, delta), n, Nil))

ResizeNode == ResizeNodeBy(ResizeDeltas)

\* double click on the title of a node, dialog confirmed
EditTitle ==
    \E n \in Visible : \E t \in Titles :
        Step("edit_title", n,
             edit_title(NodeRelease(NodePress(World, n, FALSE), n, Nil), n, t))

\* Ctrl-press on node s, move, release over node t (Nil: empty space)
DrawEdge ==
    \E s \in Visible : \E t \in Visible \cup {Nil} :
        /\ Len(edge) < MaxEdges
        /\ Step("draw_edge", s,
                EdgeRelease(EdgeMouseMove(EdgePress(World, s),
                                          IF t = Nil THEN RPt(<<-500, -500>>)
                                          ELSE RPt(scenePos(World, t))), t))

\* Ctrl-press on node s: a temporary edge starts at s
PressForEdge ==
    \E s \in Visible :
        /\ temp_edge = Nil
        /\ Len(edge) < MaxEdges
        /\ Step("edge_press", s, EdgePress(World, s))

\* the mouse moves to a scene point of ps while an edge is being drawn
MoveForEdge(ps) ==
    \E p \in ps :
        /\ temp_edge # Nil
        /\ Step("edge_move", edge_start_node, EdgeMouseMove(World, RPt(p)))

\* release over node t (Nil: empty space) while an edge is being drawn
ReleaseForEdge ==
    \E t \in Visible \cup {Nil} :
        /\ temp_edge # Nil
        /\ Step("edge_release", edge_start_node, EdgeRelease(World, t))

\* press on an edge: the view selects it alone
ClickEdge ==
    \E e \in VisibleEdges :
        Step("click_edge", Nil, [ClearSelection(World) EXCEPT !.edge[e].selected = TRUE])

\* drag of an end handle of an edge to the scene position of a corner
DragControl ==
    \E e \in VisibleEdges : \E is_start \in BOOLEAN : \E p \in Positions :
        /\ Ctl(edge[e], is_start).in_scene
        /\ Step("drag_control", Nil, ControlDrag(World, e, is_start, RPt(p)))

DragWaypointTo(ps) ==
    \E e \in VisibleEdges : \E p \in ps :
        /\ edge[e].waypoint_control.in_scene
        /\ Step("drag_waypoint", Nil, WaypointDrag(World, e, RPt(p)))

DragWaypoint == DragWaypointTo(Positions)

EditEdgeTitle ==
    \E e \in VisibleEdges : \E t \in EdgeTitles :
        /\ edge[e].title_in_scene
        /\ Step("edit_edge_title", Nil, EdgeTitleEdit(World, e, t))

\* toolbar > node type
ApplyType ==
    \E t \in NodeTypes :
        /\ Cardinality(SelectedNodes(World)) = 1
        /\ Step("apply_type", Nil, apply_node_type(World, t))

\* toolbar > Mark as Initial
MarkInitial ==
    /\ Cardinality(SelectedNodes(World)) = 1
    /\ Step("mark_initial", Nil, mark_as_initial(World))

\* Edit > Undo
Undo == Replay("undo", "u", undo_action(World))

\* Edit > Redo
Redo == Replay("redo", "r", redo_action(World))

Next ==
    \/ Within(MaxSteps) /\ LoadDesign
    \/ Within(MaxSteps) /\ AddNode
    \/ Within(MaxSteps) /\ AddChildNode
    \/ Within(MaxSteps) /\ RemoveFromParent
    \/ Within(MaxSteps) /\ DeleteNode
    \/ Within(MaxSteps) /\ DeleteSelected
    \/ Within(MaxSteps) /\ ClickNode
    \/ Within(MaxSteps) /\ DragNode
    \/ Within(MaxSteps) /\ HandleDragNode
    \/ Within(MaxSteps) /\ ResizeNode
    \/ Within(MaxSteps) /\ EditTitle
    \/ Within(MaxSteps) /\ DrawEdge
    \/ Within(MaxSteps) /\ ClickEdge
    \/ Within(MaxSteps) /\ DragControl
    \/ Within(MaxSteps) /\ DragWaypoint
    \/ Within(MaxSteps) /\ EditEdgeTitle
    \/ Within(MaxSteps) /\ ApplyType
    \/ Within(MaxSteps) /\ MarkInitial
    \/ Within(MaxSteps) /\ Undo
    \/ Within(MaxSteps) /\ Redo

Spec == Init /\ [][Next]_vars

\* two nodes joined by an edge: drags, deletions and retitling of nodes
\* with undo and redo
NextPair ==
    \/ Within(PairSteps) /\ LoadDesignFrom({DocPair})
    \/ Within(PairSteps) /\ DragNodeTo({<<0, 200>>})
    \/ Within(PairSteps) /\ DeleteNode
    \/ Within(PairSteps) /\ EditTitle
    \/ Within(PairSteps) /\ Undo
    \/ Within(PairSteps) /\ Redo

SpecPair == Init /\ [][NextPair]_vars

\* the edge of the pair: retitling and deletion with undo and redo
NextEdge ==
    \/ Within(EdgeSteps) /\ LoadDesignFrom({DocPair})
    \/ Within(EdgeSteps) /\ EditEdgeTitle
    \/ Within(EdgeSteps) /\ ClickEdge
    \/ Within(EdgeSteps) /\ DeleteSelected
    \/ Within(EdgeSteps) /\ Undo
    \/ Within(EdgeSteps) /\ Redo

SpecEdge == Init /\ [][NextEdge]_vars

\* a node beside a container: drops, deletions, undo and redo
NextNest ==
    \/ Within(NestSteps) /\ LoadDesignFrom({DocNest})
    \/ Within(NestSteps) /\ DragNodeTo({<<300, 0>>, <<350, 50>>})
    \/ Within(NestSteps) /\ DeleteNode
    \/ Within(NestSteps) /\ Undo
    \/ Within(NestSteps) /\ Redo

SpecNest == Init /\ [][NextNest]_vars

\* a node beside a container: clicks and drags by the body and by the handle
NextDrop ==
    \/ Within(DropSteps) /\ LoadDesignFrom({DocNest})
    \/ Within(DropSteps) /\ ClickNode
    \/ Within(DropSteps) /\ DragNodeTo(Positions)
    \/ Within(DropSteps) /\ HandleDragNodeTo(Positions)

SpecDrop == Init /\ [][NextDrop]_vars

\* both stacks together hold as many entries as one stack may
\* a nest two levels deep: drops inside and outside the containers, the
\* context menu's Remove from Parent, undo and redo
DeepPositions == {<<70, 100>>, <<360, 300>>, <<400, 400>>, <<700, 0>>}

NextDeep ==
    \/ Within(DeepSteps) /\ LoadDesignFrom({DocDeep})
    \/ Within(DeepSteps) /\ DragNodeTo(DeepPositions)
    \/ Within(DeepSteps) /\ RemoveFromParent
    \/ Within(DeepSteps) /\ Undo
    \/ Within(DeepSteps) /\ Redo

SpecDeep == Init /\ [][NextDeep]_vars

\* nodes made from the context menu, selected, resized from the handle;
\* undo and redo
NextSize ==
    \/ Within(SizeSteps) /\ AddNodeAt({<<0, 0>>})
    \/ Within(SizeSteps) /\ AddChildNodeAt({<<50, 50>>})
    \/ Within(SizeSteps) /\ ClickNode
    \/ Within(SizeSteps) /\ ResizeNode
    \/ Within(SizeSteps) /\ Undo
    \/ Within(SizeSteps) /\ Redo

SpecSize == Init /\ [][NextSize]_vars

\* nodes given a type and marked as initial state from the toolbar; undo
\* and redo
NextType ==
    \/ Within(TypeSteps) /\ AddNodeAt({<<0, 0>>, <<300, 0>>})
    \/ Within(TypeSteps) /\ ClickNode
    \/ Within(TypeSteps) /\ ApplyType
    \/ Within(TypeSteps) /\ MarkInitial
    \/ Within(TypeSteps) /\ Undo
    \/ Within(TypeSteps) /\ Redo

SpecType == Init /\ [][NextType]_vars

\* edges drawn and nodes deleted in a document with an edge that ends at
\* the child of a container
NextTree ==
    \/ Within(TreeSteps) /\ LoadDesignFrom({DocTree})
    \/ Within(TreeSteps) /\ DrawEdge
    \/ Within(TreeSteps) /\ DeleteNode
    \/ Within(TreeSteps) /\ ClickEdge
    \/ Within(TreeSteps) /\ DeleteSelected
    \/ Within(TreeSteps) /\ Undo
    \/ Within(TreeSteps) /\ Redo

SpecTree == Init /\ [][NextTree]_vars

\* the mouse is free: no edge is being drawn
Idle(k) == Within(k) /\ temp_edge = Nil

\* edges drawn step by step, their endpoint nodes dragged and resized,
\* their waypoint dragged; undo and redo
RoutePoints == {<<-500, -500>>, <<250, 400>>}

NextRoute ==
    \/ Idle(RouteSteps) /\ LoadDesignFrom({DocTree})
    \/ Within(RouteSteps) /\ PressForEdge
    \/ Within(RouteSteps) /\ MoveForEdge(RoutePoints)
    \/ Within(RouteSteps) /\ ReleaseForEdge
    \/ Idle(RouteSteps) /\ ClickNode
    \/ Idle(RouteSteps) /\ ResizeNodeBy({<<200, 0>>})
    \/ Idle(RouteSteps) /\ DragNodeTo({<<0, 200>>})
    \/ Idle(RouteSteps) /\ DragWaypoint
    \/ Idle(RouteSteps) /\ Undo
    \/ Idle(RouteSteps) /\ Redo

SpecRoute == Init /\ [][NextRoute]_vars

\* the edge of the pair: its waypoint dragged left of, between and right of
\* the endpoints, an endpoint node dragged to where the connection points
\* share their x, the edge deleted; undo and redo
WayPoints == {<<0, 0>>, <<230, 0>>, <<300, 0>>}

NextWay ==
    \/ Within(WaySteps) /\ LoadDesignFrom({DocPair})
    \/ Within(WaySteps) /\ DragWaypointTo(WayPoints)
    \/ Within(WaySteps) /\ DragNodesTo({2}, {<<207, 200>>})
    \/ Within(WaySteps) /\ ClickEdge
    \/ Within(WaySteps) /\ DeleteSelected
    \/ Within(WaySteps) /\ Undo
    \/ Within(WaySteps) /\ Redo

SpecWay == Init /\ [][NextWay]_vars

\* nodes created side by side and resized, edges drawn from one towards
\* points around it and released over the other
CursorPoints == {<<-500, -500>>, <<250, 400>>, <<100, 50>>}

NextBorder ==
    \/ Idle(BorderSteps) /\ AddNodeAt({<<0, 0>>, <<300, 0>>})
    \/ Idle(BorderSteps) /\ ClickNode
    \/ Idle(BorderSteps) /\ ResizeNodeBy({<<200, 200>>})
    \/ Within(BorderSteps) /\ PressForEdge
    \/ Within(BorderSteps) /\ MoveForEdge(CursorPoints)
    \/ Within(BorderSteps) /\ ReleaseForEdge

SpecBorder == Init /\ [][NextBorder]_vars

\* nodes created side by side, resized until they overlap, selected,
\* deselected and dragged
NextOrder ==
    \/ Within(OrderSteps) /\ AddNodeAt({<<0, 0>>, <<300, 0>>})
    \/ Within(OrderSteps) /\ ClickNode
    \/ Within(OrderSteps) /\ ClickSpace
    \/ Within(OrderSteps) /\ ResizeNodeBy({<<200, 200>>})
    \/ Within(OrderSteps) /\ DragNodeTo({<<0, 200>>, <<350, 50>>})

SpecOrder == Init /\ [][NextOrder]_vars

\* designs built by hand and replaced from files, good and bad
NextLoad ==
    \/ Within(LoadSteps) /\ AddNodeAt({<<0, 0>>, <<300, 0>>})
    \/ Within(LoadSteps) /\ DragNodeTo({<<0, 200>>, <<350, 50>>})
    \/ Within(LoadSteps) /\ LoadDesignFile(Files)

SpecLoad == Init /\ [][NextLoad]_vars

\* nested designs rearranged by drops and by Remove from Parent, edges
\* with moved waypoints, saved and loaded again
NextSave ==
    \/ Within(SaveSteps) /\ LoadDesignFrom({DocDeep, DocTree})
    \/ Within(SaveSteps) /\ DragNodeTo(DeepPositions)
    \/ Within(SaveSteps) /\ RemoveFromParent
    \/ Within(SaveSteps) /\ DragWaypointTo(WayPoints)
    \/ Within(SaveSteps) /\ SaveThenLoad

SpecSave == Init /\ [][NextSave]_vars

\* designs with an edge, their nodes and waypoints dragged, exported
NextExport ==
    \/ Within(ExportSteps) /\ LoadDesignFrom({DocPair, DocTree})
    \/ Within(ExportSteps) /\ DragNodeTo({<<0, 200>>, <<350, 50>>})
    \/ Within(ExportSteps) /\ DragWaypointTo(WayPoints)
    \/ Within(ExportSteps) /\ ExportDesign(ExportDocs)

SpecExport == Init /\ [][NextExport]_vars

\* children made and detached from the context menu, which leaves records
\* that validation discards; undo and redo
NextSkip ==
    \/ Within(SkipSteps) /\ AddNodeAt({<<0, 0>>})
    \/ Within(SkipSteps) /\ AddChildNodeAt({<<50, 50>>})
    \/ Within(SkipSteps) /\ RemoveFromParent
    \/ Within(SkipSteps) /\ DragNodeTo({<<350, 50>>})
    \/ Within(SkipSteps) /\ Undo
    \/ Within(SkipSteps) /\ Redo

SpecSkip == Init /\ [][NextSkip]_vars

\* two nodes joined by an edge: a deletion undone and redone again and again
NextRepeat ==
    \/ Within(RepeatSteps) /\ LoadDesignFrom({DocPair})
    \/ Within(RepeatSteps) /\ DeleteNode
    \/ Within(RepeatSteps) /\ Undo
    \/ Within(RepeatSteps) /\ Redo

SpecRepeat == Init /\ [][NextRepeat]_vars

\* a node beside a container with a child: drops, clicks, the context menu's
\* Remove from Parent and resizes from the handle, with undo and redo
NextStale ==
    \/ Within(StaleSteps) /\ LoadDesignFrom({DocNest})
    \/ Within(StaleSteps) /\ DragNodeTo({<<300, 0>>})
    \/ Within(StaleSteps) /\ ClickNode
    \/ Within(StaleSteps) /\ RemoveFromParent
    \/ Within(StaleSteps) /\ ResizeNodeBy({<<200, 200>>})
    \/ Within(StaleSteps) /\ Undo
    \/ Within(StaleSteps) /\ Redo

SpecStale == Init /\ [][NextStale]_vars

\* a node added to the pair, drops into it and deletions, then undo down
\* the stack
NextDangle ==
    \/ Within(DangleSteps) /\ LoadDesignFrom({DocPair})
    \/ Within(DangleSteps) /\ AddNodeAt({<<0, 200>>})
    \/ Within(DangleSteps) /\ DragNodeTo({<<0, 200>>})
    \/ Within(DangleSteps) /\ DeleteNode
    \/ Within(DangleSteps + DangleUndos) /\ Undo

SpecDangle == Init /\ [][NextDangle]_vars

StacksFull == Len(undo_stack) + Len(redo_stack) >= max_undo_stack_size

\* one of the stacks is at its limit or one entry below it
NearLimit ==
    \/ Len(undo_stack) >= max_undo_stack_size - 1
    \/ Len(redo_stack) >= max_undo_stack_size

\* the stacks at their limit: node A of the pair is dragged to and fro until
\* the undo stack is full and everything is undone; near the limit of a
\* stack also redo and, once, the deletion of the edge
NextStacks ==
    \/ node = <<>> /\ LoadDesignFrom({DocPair})
    \/ redo_stack = <<>> /\ DragNodesTo({1}, {<<0, 0>>, <<0, 200>>})
    \/ NearLimit /\ ClickEdge
    \/ NearLimit /\ SelectedNodes(World) = {} /\ Len(edge) = 1 /\ DeleteSelected
    \/ StacksFull /\ Undo
    \/ StacksFull /\ NearLimit /\ Redo

SpecStacks == Init /\ [][NextStacks]_vars

\* ------------------------------------------------------------------------
\* Properties
\* ------------------------------------------------------------------------
OnlyUndo(trail) == \A i \in 1..Len(trail) : trail[i] = "u"

Stacks == <<StackView(World, undo_stack), StackView(World, redo_stack)>>

LiveOrigins == {OriginOf(World, n) : n \in Visible}

\* C1: once all the records that one user action pushed are undone, the
\* graph is what it was before the action: the same nodes and edges, parent
\* relation, children, positions, rects, titles, types, flags and edge data
C1_UndoRestoresGraph ==
    (hist.pushed > 0 /\ Len(hist.trail) = hist.pushed /\ OnlyUndo(hist.trail))
        => Graph(World) = hist.pre

\* C2: one undo followed by one redo right after a user action gives back
\* the graph reached by the action and both stacks as they were after it
C2_UndoRedoRestores ==
    (hist.pushed > 0 /\ hist.trail = <<"u", "r">>)
        => Graph(World) = hist.post /\ Stacks = hist.stacks

\* C3: after the deletion of a node with one connected edge, one undo
\* recreates the node and restores the edge with its title and waypoint
\* ratio, and one redo after it deletes both again
C3_DeleteUndoRestoresEdge ==
    /\ (hist.act = "delete_node" /\ hist.attached = 1 /\ hist.trail = <<"u">>)
          => /\ LiveOrigins = {v.id : v \in hist.pre.nodes}
             /\ Graph(World).edges = hist.pre.edges
    /\ (hist.act = "delete_node" /\ hist.attached = 1 /\ hist.trail = <<"u", "r">>)
          => /\ LiveOrigins = {v.id : v \in hist.post.nodes}
             /\ Graph(World).edge_count = hist.post.edge_count

\* C4: right after a user action that recorded something the redo stack is
\* empty
C4_RecordClearsRedo == hist.recorded => redo_stack = <<>>

\* the last step pushed onto the undo stack
PushedOnUndo == hist.recorded \/ (hist.op = "redo" /\ hist.ret.applied)

\* the last step pushed onto the redo stack
PushedOnRedo == hist.op = "undo" /\ hist.ret.applied

\* the most records one step pushes: the deletion of a node pushes one for
\* each connected edge and one for the node
MaxPush == MaxEdges + 1

\* stack `new' is stack `old' at its limit after a push of k records: the k
\* oldest entries are gone and the others are in their order
DroppedOldest(old, new) ==
    /\ Len(new) = max_undo_stack_size
    /\ \E k \in 1..MaxPush :
          SubSeq(new, 1, max_undo_stack_size - k) = SubSeq(old, k + 1, max_undo_stack_size)

\* C5: each stack holds at most 50 entries, and a push by recording, undo
\* or redo onto a stack of 50 drops its oldest entry and keeps the order of
\* the others
C5_StacksBounded ==
    /\ Len(undo_stack) <= max_undo_stack_size
    /\ Len(redo_stack) <= max_undo_stack_size
    /\ (PushedOnUndo /\ Len(hist.prev_undo) = max_undo_stack_size)
          => DroppedOldest(hist.prev_undo, undo_stack)
    /\ (PushedOnRedo /\ Len(hist.prev_redo) = max_undo_stack_size)
          => DroppedOldest(hist.prev_redo, redo_stack)

\* a push by undo onto a redo stack of 50 entries has happened
C5_PushAtLimit ==
    PushedOnRedo /\ Len(hist.prev_redo) = max_undo_stack_size

\* C6: a call of undo ends with an entry applied or with the undo stack
\* empty: an entry that cannot be applied is dropped and the next one tried
C6_UndoSkipsToApplicable ==
    hist.op = "undo" => (hist.ret.applied \/ undo_stack = <<>>)

\* C7: a call of redo ends with an entry applied or with the redo stack
\* empty: a stale entry is dropped and the next one tried
C7_RedoSkipsToApplicable ==
    hist.op = "redo" => (hist.ret.applied \/ redo_stack = <<>>)

\* a node that was deleted and has been recreated by undo
Superseded(n) ==
    /\ ~node[n].in_scene
    /\ \E m \in Visible : m # n /\ node[m].origin = node[n].origin

StackRefs(stack) == UNION {NodeRefs(World, stack[i]) : i \in 1..Len(stack)}

\* C8: once a deleted node has been recreated by undo, no record on either
\* stack refers to the deleted original
C8_RecordsFollowRecreatedNode ==
    \A n \in StackRefs(undo_stack) \cup StackRefs(redo_stack) : ~Superseded(n)

ParentOf(n) == IF n = Nil THEN Nil ELSE node[n].parent_node

RECURSIVE KthParent(_, _)
KthParent(n, k) == IF k = 0 THEN n ELSE ParentOf(KthParent(n, k - 1))

Occurrences(seq, x) == Cardinality({i \in 1..Len(seq) : seq[i] = x})

\* C9: no node of the scene is its own ancestor, and a node with a parent is
\* in the child list of that parent exactly once
C9_ParentRelationSound ==
    \A n \in Visible :
        /\ \A k \in 1..Len(node) : KthParent(n, k) # n
        /\ node[n].parent_node # Nil
              => Occurrences(node[node[n].parent_node].child_nodes, n) = 1

\* C10: when a drag has changed the position of a node, its parent is a
\* least-area candidate that contains it, or none when there is no candidate
C10_DropPicksSmallestContainer ==
    (hist.op = "drag" /\ hist.moved) => node[hist.n].parent_node \in hist.choices

\* the containment check left node n as it was: same parent, same
\* position, no new undo record
SameAfterCheck(n, w1, w2) ==
    /\ w2.node[n].parent_node = w1.node[n].parent_node
    /\ w2.node[n].pos = w1.node[n].pos
    /\ w2.undo_stack = w1.undo_stack

SecondCheckQuiet(n, w1) ==
    \A f2 \in FirstChoices(w1, n) :
        SameAfterCheck(n, w1, check_and_update_parent(w1, n, f2))

\* C11: once a drop has run _check_and_update_parent on the dragged node,
\* running it again without moving the node changes nothing: same parent,
\* same position, no new undo record
C11_CheckParentIdempotent ==
    (hist.op = "drag" /\ hist.moved) => SecondCheckQuiet(hist.n, World)
\* the last step was an editing operation that changed the parent of the
\* node it acted on
ParentChanged ==
    /\ hist'.op \in {"drag", "remove_from_parent"}
    /\ hist'.n \in DOMAIN node
    /\ node'[hist'.n].parent_node # node[hist'.n].parent_node

\* C12: whenever an editing operation changes a node's parent (a drop that
\* attaches, a drop that detaches to the root, the context menu's Remove
\* from Parent), the node's scene position is the same before and after
C12_ReparentKeepsScenePos ==
    [][ParentChanged => scenePos(World', hist'.n) = hist'.at]_vars

\* the records the last step pushed (no step of the nests comes near the
\* stack limit)
NewRecords == SubSeq(undo_stack', Len(undo_stack) + 1, Len(undo_stack'))

ReparentRecords ==
    {i \in DOMAIN NewRecords : NewRecords[i].type = "node_reparent"}

\* record r tells the change of parent the last step made to node n
TellsReparent(r, n) ==
    /\ r.node = n
    /\ r.old_parent = node[n].parent_node
    /\ r.new_parent = node'[n].parent_node
    /\ r.new_pos = node'[n].pos
    /\ node[n].parent_node # Nil =>
          r.old_pos = ISub(hist'.at, scenePos(World, node[n].parent_node))

\* C13: every change of a node's parent through the editor (drop attach,
\* drop detach, the context menu's Remove from Parent) pushes exactly one
\* node_reparent record, holding the old parent, the new parent, the old
\* local position and the new local position
C13_ReparentRecordedOnce ==
    [][ParentChanged =>
          /\ Cardinality(ReparentRecords) = 1
          /\ \A i \in ReparentRecords : TellsReparent(NewRecords[i], hist'.n)]_vars
\* the rect of container p reaches beyond the right and bottom borders of
\* its child c by the padding at least
HoldsWithPadding(w, p, c) ==
    /\ w.node[c].pos[1] + w.node[c].rect[1] + padding <= w.node[p].rect[1]
    /\ w.node[c].pos[2] + w.node[c].rect[2] + padding <= w.node[p].rect[2]

NoRectShrank ==
    \A m \in DOMAIN node :
        /\ node'[m].rect[1] >= node[m].rect[1]
        /\ node'[m].rect[2] >= node[m].rect[2]

DropAttached(n) ==
    /\ node'[n].parent_node # Nil
    /\ node'[n].parent_node # node[n].parent_node

DropDetached(n) ==
    /\ node[n].parent_node # Nil
    /\ node'[n].parent_node = Nil

DropOutcome(n) ==
    /\ node'[n].parent_node \in hist'.choices
    /\ DropAttached(n) => HoldsWithPadding(World', node'[n].parent_node, n)
    /\ DropDetached(n) => NoRectShrank

\* C14: when B is dropped fully inside A, B's parent becomes A and A's
\* rectangle grows to contain B plus padding; when B is dropped back
\* outside, B's parent becomes null and A's rectangle does not shrink
C14_DropGrowsContainer ==
    [][(hist'.op = "drag" /\ hist'.moved /\ hist'.n \in DOMAIN node)
          => DropOutcome(hist'.n)]_vars
\* C15: in every reachable state each container's rectangle is at least as
\* large as the union of its children's rectangles plus padding, also
\* after the container is resized and after a child is moved or resized
C15_ContainerHoldsChildren ==
    \A p \in Visible : \A i \in DOMAIN node[p].child_nodes :
        HoldsWithPadding(World, p, node[p].child_nodes[i])

\* C16: after any sequence of node creations, resize gestures, undos and
\* redos, every node's rect is at least min_width wide and min_height high
C16_MinimumSize ==
    \A n \in DOMAIN node :
        node[n].rect[1] >= min_width /\ node[n].rect[2] >= min_height

\* a resize gesture that pulled the handle below the minimum size left the
\* node at the minimum size, and so recorded nothing
C16_ShrinkClamped ==
    /\ hist.op = "resize"
    /\ hist.n \in DOMAIN node
    /\ node[hist.n].rect = <<min_width, min_height>>
    /\ undo_stack = hist.prev_undo
\* C17: in every reachable state a node whose is_initial is true has type
\* State: the flag is cleared when the type changes away from State
C17_InitialOnlyOnState ==
    \A n \in DOMAIN node : node[n].is_initial => node[n].node_type = "State"
\* no node of ms is in the scene after the step, and no edge of the scene's
\* edge list ends at one
GoneWithEdges(ms) ==
    /\ \A m \in ms : ~node'[m].in_scene
    /\ \A i \in DOMAIN scene_edges' :
          /\ edge'[scene_edges'[i]].start_node \notin ms
          /\ edge'[scene_edges'[i]].end_node \notin ms

\* C18: after delete_node(N) completes, N and every descendant are absent
\* from the scene, and no edge with N or a descendant as endpoint remains
\* in the scene's edge list
C18_DeleteRemovesSubtree ==
    [][hist'.op = "delete_node"
          => GoneWithEdges({hist'.n} \cup Descendants(World, hist'.n))]_vars

\* a container was deleted together with a child at which an edge ended
C18_DeletedChildWithEdge ==
    /\ hist.op = "delete_node"
    /\ \E m \in DOMAIN node : \E e \in DOMAIN edge :
          /\ node[m].parent_node = hist.n
          /\ ~node[m].in_scene
          /\ edge[e].start_node = m \/ edge[e].end_node = m
          /\ ~edge[e].in_scene
\* the polyline P0, (mx, P0.y), (mx, P1.y), P1 with
\* mx = P0.x + ratio * (P1.x - P0.x)
Polyline(p0, p1, ratio) ==
    <<p0,
      <<RAdd(p0[1], RMul(ratio, RSub(p1[1], p0[1]))), p0[2]>>,
      <<RAdd(p0[1], RMul(ratio, RSub(p1[1], p0[1]))), p1[2]>>,
      p1>>

RoutingFrom(w, e, s) ==
    Polyline(s.pt, get_connection_point(s.w, e, FALSE).pt, w.edge[e].waypoint_ratio)

\* the routing of the connection points and the ratio edge e has in world w
Routing(w, e) == RoutingFrom(w, e, get_connection_point(w, e, TRUE))

\* the straight line from the border of the bound start node to the free end
StraightLine(w, e) ==
    <<mapToScene(w, w.edge[e].start_node,
          get_border_intersection(w.node[w.edge[e].start_node].rect,
              mapFromScene(w, w.edge[e].start_node, w.edge[e].end_pos))),
      w.edge[e].end_pos>>

Bound(e) == edge[e].start_node # Nil /\ edge[e].end_node # Nil

\* the edges shown: those of the scene's list and the one being drawn
ShownEdges == {e \in DOMAIN edge : edge[e].in_scene}

\* C19: for an edge with both endpoints bound update_path produces exactly
\* the 4-point polyline P0, (mx, P0.y), (mx, P1.y), P1 with
\* mx = P0.x + waypoint_ratio * (P1.x - P0.x); for an edge with an unbound
\* endpoint it produces the 2-point straight line from the bound node's
\* border intersection to the free point
C19_UpdatePathShape ==
    \A e \in ShownEdges :
        /\ Bound(e) => update_path(World, e).edge[e].path = Routing(World, e)
        /\ (edge[e].start_node # Nil /\ edge[e].end_node = Nil)
              => update_path(World, e).edge[e].path = StraightLine(World, e)

\* an edge is being drawn towards a free point while a bound edge lies in
\* the scene
C19_BoundAndFreeEdges ==
    /\ hist.op = "edge_move"
    /\ temp_edge # Nil
    /\ edge[temp_edge].end_node = Nil
    /\ Len(edge[temp_edge].path) = 2
    /\ \E e \in ShownEdges : Bound(e) /\ Len(edge[e].path) = 4

\* C20: after any change to the position or size of an endpoint node (or
\* the position of an ancestor), to the waypoint ratio or to an endpoint
\* offset, by gesture or by undo/redo, the stored path of every connected
\* edge equals the routing of its current connection points and ratio
C20_PathFollowsEndpoints ==
    \A e \in ShownEdges : Bound(e) => edge[e].path = Routing(World, e)

\* C21: after any sequence of waypoint drags, undo and redo of waypoint
\* changes and undo of edge deletion, the waypoint_ratio of every edge
\* lies in [0, 1]
C21_RatioInUnitInterval ==
    \A e \in DOMAIN edge :
        RLe(R(0), edge[e].waypoint_ratio) /\ RLe(edge[e].waypoint_ratio, R(1))

\* a drag past an endpoint left the ratio at an end of the interval, and
\* undo has since put an earlier ratio back
C21_ClampedThenUndone ==
    /\ hist.op = "undo" /\ hist.ret.applied
    /\ hist.ret.kind \in {"edge_waypoint_change", "edge_delete"}
    /\ \E i \in DOMAIN redo_stack :
          /\ redo_stack[i].type = "edge_waypoint_change"
          /\ redo_stack[i].new_ratio \in {R(0), R(1)}

\* the waypoint handle of edge e and the connection points before the drag
DragRatio(w, e, x, p0, p1) ==
    IF RLt(Q(1, 10), RAbs(RSub(p1[1], p0[1])))
    THEN IF RLt(RDiv(RSub(x, p0[1]), RSub(p1[1], p0[1])), R(0)) THEN R(0)
         ELSE IF RLt(R(1), RDiv(RSub(x, p0[1]), RSub(p1[1], p0[1]))) THEN R(1)
         ELSE RDiv(RSub(x, p0[1]), RSub(p1[1], p0[1]))
    ELSE w.edge[e].waypoint_ratio

MidY(p0, p1) == RDiv(RAdd(p0[2], p1[2]), R(2))

DragSetsRatio(w, e, p, w2) ==
    /\ w2.edge[e].waypoint_ratio =
          DragRatio(w, e, p[1], get_connection_point(w, e, TRUE).pt,
                    get_connection_point(w, e, FALSE).pt)
    /\ w2.edge[e].waypoint_control.pos[2] =
          MidY(get_connection_point(w2, e, TRUE).pt,
               get_connection_point(w2, e, FALSE).pt)

RectLeft == RNeg(BoundPad)
RectTop == RNeg(BoundPad)
RectRight(rect) == RAdd(R(rect[1]), BoundPad)
RectBottom(rect) == RAdd(R(rect[2]), BoundPad)
RectCenter(rect) == <<Q(rect[1], 2), Q(rect[2], 2)>>
RightMiddle(rect) == <<RectRight(rect), RectCenter(rect)[2]>>

StrictlyOutside(rect, p) ==
    \/ RLt(p[1], RectLeft) \/ RLt(RectRight(rect), p[1])
    \/ RLt(p[2], RectTop) \/ RLt(RectBottom(rect), p[2])

OnBoundary(rect, q) ==
    \/ /\ q[1] \in {RectLeft, RectRight(rect)}
       /\ RLe(RectTop, q[2]) /\ RLe(q[2], RectBottom(rect))
    \/ /\ q[2] \in {RectTop, RectBottom(rect)}
       /\ RLe(RectLeft, q[1]) /\ RLe(q[1], RectRight(rect))

Between(a, b, x) == RLe(RMin(a, b), x) /\ RLe(x, RMax(a, b))

\* q lies on the segment from c to p
OnSegment(c, p, q) ==
    /\ RMul(RSub(q[1], c[1]), RSub(p[2], c[2])) = RMul(RSub(q[2], c[2]), RSub(p[1], c[1]))
    /\ Between(c[1], p[1], q[1])
    /\ Between(c[2], p[2], q[2])

\* no side is tried: both components of the direction are within epsilon
NoSideTried(rect, p) ==
    /\ ~AboveEps(RSub(p[1], RectCenter(rect)[1]))
    /\ ~AboveEps(RSub(p[2], RectCenter(rect)[2]))

\* target points in the local coordinates of node n: the center, a point
\* within epsilon of it, points on every side of the rectangle and the
\* points the cursor moves to
BorderTargets(n) ==
    {RectCenter(node[n].rect),
     <<RAdd(RectCenter(node[n].rect)[1], Q(1, 2000000)), RectCenter(node[n].rect)[2]>>,
     <<R(-50), R(-50)>>, <<R(-300), R(70)>>, <<R(100), R(-200)>>,
     <<R(node[n].rect[1] + 100), R(50)>>,
     <<R(node[n].rect[1] + 50), R(node[n].rect[2] + 30)>>,
     <<R(30), R(node[n].rect[2] + 400)>>,
     <<Q(-7, 2), R(-40)>>, <<R(node[n].rect[1] + 4), R(node[n].rect[2] + 4)>>}
    \cup {mapFromScene(World, n, RPt(p)) : p \in CursorPoints}

\* (a point within epsilon of the center is not outside the rectangle)
BorderPointRight(rect, p) ==
    IF p = RectCenter(rect) \/ NoSideTried(rect, p)
    THEN get_border_intersection(rect, p) = RightMiddle(rect)
    ELSE StrictlyOutside(rect, p)
         => /\ OnBoundary(rect, get_border_intersection(rect, p))
            /\ OnSegment(RectCenter(rect), p, get_border_intersection(rect, p))

\* C23: for any rectangle with positive width and height and any target
\* point strictly outside it, get_border_intersection returns a point on the
\* rectangle's boundary and on the segment between the rectangle's center
\* and the target; when the target equals the center, or no valid
\* intersection exists, it returns the midpoint of the right side
C23_BorderIntersection ==
    \A n \in Visible : \A p \in BorderTargets(n) :
        BorderPointRight(node[n].rect, p)

\* an edge is being drawn from a resized node towards a point outside it,
\* and its line starts on the node's border
C23_LineStartsOnBorder ==
    /\ hist.op = "edge_move"
    /\ temp_edge # Nil
    /\ node[edge[temp_edge].start_node].rect # <<min_width, min_height>>
    /\ StrictlyOutside(node[edge[temp_edge].start_node].rect,
                       mapFromScene(World, edge[temp_edge].start_node,
                                    edge[temp_edge].end_pos))
    /\ OnBoundary(node[edge[temp_edge].start_node].rect,
                  mapFromScene(World, edge[temp_edge].start_node,
                               edge[temp_edge].path[1]))

\* node 1 at (0, 0) and node 2 at (300, 0), both 200x100 and at the root,
\* joined by edge e from 1 to 2 with ratio 0.5
PairJoinedBy(e) ==
    /\ Bound(e)
    /\ edge[e].start_node = 1 /\ edge[e].end_node = 2
    /\ edge[e].waypoint_ratio = Q(1, 2)
    /\ node[1].pos = <<0, 0>> /\ node[2].pos = <<300, 0>>
    /\ node[1].rect = <<200, 100>> /\ node[2].rect = <<200, 100>>
    /\ node[1].parent_node = Nil /\ node[2].parent_node = Nil

\* C24: with node A at (0, 0) of size 200x100, node B at (300, 0) and an
\* edge A -> B with ratio 0.5, the rendered path is
\* (200, 50) -> (250, 50) -> (250, 50) -> (300, 50)
C24_PairPath ==
    \A e \in ShownEdges :
        PairJoinedBy(e)
        => edge[e].path = <<RPt(<<200, 50>>), RPt(<<250, 50>>),
                            RPt(<<250, 50>>), RPt(<<300, 50>>)>>

\* the scene rectangles of n and m overlap
RectsOverlap_a(n, m, a, b) ==
    /\ a[1] < b[1] + node[m].rect[1] /\ b[1] < a[1] + node[n].rect[1]
    /\ a[2] < b[2] + node[m].rect[2] /\ b[2] < a[2] + node[n].rect[2]

RectsOverlap(n, m) == RectsOverlap_a(n, m, scenePos(World, n), scenePos(World, m))

\* no node is selected and no gesture is in progress
AtRest ==
    /\ SelectedNodes(World) = {}
    /\ temp_edge = Nil
    /\ \A n \in Visible : ~node[n].is_resizing

\* C25: whenever no node is selected and no drag or resize is in progress,
\* for every pair of nodes whose scene rectangles overlap, the node with the
\* strictly smaller area has the strictly greater z-value
C25_SmallerNodeOnTop ==
    AtRest =>
       \A n, m \in Visible :
          (RectsOverlap(n, m) /\ Area(World, n) < Area(World, m))
          => node[n].z > node[m].z

\* the other nodes that overlap n and have a strictly smaller area
SmallerNeighbours(w, n) ==
    {m \in other_nodes(w, n) : Area(w, m) < Area(w, n)}

\* the greatest z-value among the nodes ms
TopZ(w, ms) == CHOOSE z \in ZValues(w, ms) : \A y \in ZValues(w, ms) : y <= z

\* the z-value N is to have after update_z_order(N)
ZBySize(w, n) ==
    IF SmallerNeighbours(w, n) = {} THEN 0
    ELSE IF w.node[n].z > TopZ(w, SmallerNeighbours(w, n)) THEN w.node[n].z
    ELSE TopZ(w, SmallerNeighbours(w, n)) + 1

\* C26: update_z_order(N), for a node N that is not being resized: with M
\* the maximum z-value among the other nodes that overlap N and have a
\* strictly smaller area, N's z-value becomes M + 1 if it is not already
\* greater than M; if N has no overlapping smaller neighbour, N's z-value
\* becomes 0
C26_UpdateZOrder ==
    \A n \in Visible :
        ~node[n].is_resizing
        => update_z_order(World, n).node[n].z = ZBySize(World, n)

\* every selected node is above every unselected node
SelectedOnTop ==
    \A n \in SelectedNodes(World) : \A m \in Visible :
        ~node[m].selected => node[n].z > node[m].z

\* a node deselected by the step no longer has the selection value
DeselectedReverts ==
    \A n \in SelectedNodes(World) :
        (n \in DOMAIN node' /\ node'[n].in_scene /\ ~node'[n].selected)
        => node'[n].z # 1000

\* C27: while a node is selected its z-value is above the z-value of every
\* unselected node; after it is deselected its z-value reverts to the
\* size-based ordering (it no longer keeps the selection value 1000)
C27_SelectionOnTop ==
    [][SelectedOnTop' /\ DeselectedReverts]_vars

\* the parent of every node of world w
Parents(w) == [m \in DOMAIN w.node |-> w.node[m].parent_node]

\* the records that world w2 holds on top of the undo stack of world w
RecordsSince(w, w2) ==
    SubSeq(w2.undo_stack, Len(w.undo_stack) + 1, Len(w2.undo_stack))

MoveRecords(seq) == {i \in DOMAIN seq : seq[i].type = "node_move"}

\* the left press on the body of node n, and the press followed by mouse
\* moves that carry n to the scene point p, and by moves out and back
BodyPressed(n) == NodePress(World, n, FALSE)

BodyDragged(n, p) ==
    NodeMouseMove(BodyPressed(n), n, ISub(p, scenePos(World, n)))

DraggedBack(n, p) ==
    NodeMouseMove(BodyDragged(n, p), n, ISub(scenePos(World, n), p))

\* world w of a gesture in progress has the undo stack and the parents of
\* the world before the press
GestureQuiet(w) ==
    /\ w.undo_stack = undo_stack
    /\ Parents(w) = Parents(World)

\* the records `pushed' by the release of a move of n from its position at
\* press to the one in w: one node_move telling the move, and at most the
\* node_reparent of the one containment check after it
MovePushed(n, w, pushed) ==
    /\ Cardinality(MoveRecords(pushed)) = 1
    /\ Len(pushed) <= 2
    /\ pushed[1] = [type |-> "node_move", node |-> n,
                    old_pos |-> node[n].pos, new_pos |-> w.node[n].pos]
    /\ Len(pushed) = 2 => pushed[2].type = "node_reparent" /\ pushed[2].node = n

\* the release in world w of a gesture on n gave w2, `first' being the
\* container the containment check meets first
ReleasedRight(n, w, first, w2) ==
    IF w.node[n].pos # node[n].pos
    THEN /\ Len(w2.undo_stack) >= Len(undo_stack)
         /\ SubSeq(w2.undo_stack, 1, Len(undo_stack)) = undo_stack
         /\ MovePushed(n, w, RecordsSince(World, w2))
         /\ w2.node[n].parent_node =
                IF potential_parents(w, n) = {} THEN Nil ELSE first
         /\ \A m \in DOMAIN node \ {n} :
                w2.node[m].parent_node = node[m].parent_node
    ELSE GestureQuiet(w2)

GestureRight(n, w) ==
    /\ GestureQuiet(w)
    /\ \A first \in FirstChoices(w, n) :
           ReleasedRight(n, w, first, NodeRelease(w, n, first))

\* C28: a move gesture on a node body (left press, moves, left release)
\* pushes no undo record and changes no parent between press and release;
\* the release pushes exactly one node_move record and runs the containment
\* check once if the position differs from the one captured at press, and
\* pushes no record and changes no parent if the position is unchanged
C28_MoveGesture ==
    \A n \in Visible :
        /\ GestureRight(n, BodyPressed(n))
        /\ \A p \in Positions :
               /\ GestureRight(n, BodyDragged(n, p))
               /\ GestureRight(n, DraggedBack(n, p))

\* a drag has moved a node into a container: a node_move and a
\* node_reparent record were pushed
C28_MovedAndDropped ==
    /\ hist.op = "drag"
    /\ hist.moved
    /\ hist.pushed = 2
    /\ Len(undo_stack) >= 2
    /\ undo_stack[Len(undo_stack) - 1].type = "node_move"
    /\ undo_stack[Len(undo_stack)].type = "node_reparent"

\* C29: when load_design fails (a missing file, invalid JSON, a well-formed
\* document that lacks required fields), the design in memory is left
\* untouched: the nodes, the edges, the parent relation and both stacks are
\* the same as before the load attempt
C29_FailedLoadKeepsDesign ==
    [][hist'.op = "load_failed" =>
          /\ Graph(World') = Graph(World)
          /\ undo_stack' = undo_stack
          /\ redo_stack' = redo_stack]_vars

NodeLabel(w, n) ==
    [title |-> w.node[n].title, pos |-> w.node[n].pos, rect |-> w.node[n].rect,
     node_type |-> w.node[n].node_type, is_initial |-> w.node[n].is_initial,
     is_container |-> w.node[n].is_container]

EdgeLabel(w, e) ==
    [title |-> w.edge[e].title, waypoint_ratio |-> w.edge[e].waypoint_ratio,
     start_offset |-> get_endpoint_offset(w, e, TRUE),
     end_offset |-> get_endpoint_offset(w, e, FALSE)]

\* f takes node n (or no node) to node n2 (or no node)
Takes(f, n, n2) ==
    IF n = Nil THEN n2 = Nil ELSE n \in DOMAIN f /\ f[n] = n2

OneToOne(f, range) ==
    /\ \A a, b \in DOMAIN f : f[a] = f[b] => a = b
    /\ \A y \in range : \E a \in DOMAIN f : f[a] = y

\* f matches the nodes of w with those of w2: labels, parents, and each
\* child as often in its parent's child list
NodeIso(w, w2, f) ==
    /\ OneToOne(f, LiveNodes(w2))
    /\ \A n \in DOMAIN f :
          /\ NodeLabel(w2, f[n]) = NodeLabel(w, n)
          /\ Takes(f, w.node[n].parent_node, w2.node[f[n]].parent_node)
          /\ \A c \in DOMAIN f :
                Occurrences(w2.node[f[n]].child_nodes, f[c])
                    = Occurrences(w.node[n].child_nodes, c)

EdgeIso(w, w2, f, g) ==
    /\ OneToOne(g, LiveEdges(w2))
    /\ \A e \in DOMAIN g :
          /\ EdgeLabel(w2, g[e]) = EdgeLabel(w, e)
          /\ Takes(f, w.edge[e].start_node, w2.edge[g[e]].start_node)
          /\ Takes(f, w.edge[e].end_node, w2.edge[g[e]].end_node)

Isomorphic(w, w2) ==
    /\ Cardinality(LiveNodes(w)) = Cardinality(LiveNodes(w2))
    /\ Cardinality(LiveEdges(w)) = Cardinality(LiveEdges(w2))
    /\ \E f \in [LiveNodes(w) -> LiveNodes(w2)] :
          /\ NodeIso(w, w2, f)
          /\ \E g \in [LiveEdges(w) -> LiveEdges(w2)] : EdgeIso(w, w2, f, g)

\* C30: for every graph reachable through editor operations (nodes
\* reparented by drag, nodes detached from their parent, nesting of depth
\* two, moved waypoints), load_design applied to the document written by
\* save_design yields an isomorphic graph: the same nodes, parents,
\* positions, rects, titles, types and flags, the same edges with the same
\* ends, titles, waypoint ratios and offsets, each node and edge once
C30_SaveLoadRoundTrip ==
    [][hist'.op = "reload" => Isomorphic(World, World')]_vars

\* world w2 lacks the edge e that was being drawn: e is in no scene and in
\* no edge list, nothing was recorded, the drawing state is reset
Discarded(w2, e) ==
    /\ ~w2.edge[e].in_scene
    /\ w2.scene_edges = scene_edges
    /\ ~Contains(w2.scene_edges, e)
    /\ w2.undo_stack = undo_stack
    /\ w2.redo_stack = redo_stack
    /\ w2.temp_edge = Nil
    /\ w2.edge_start_node = Nil

\* world w2 holds the drawn edge e from the start node to node t, recorded
MadePermanent(w2, e, t) ==
    /\ w2.edge[e].in_scene
    /\ w2.scene_edges = Append(scene_edges, e)
    /\ w2.edge[e].start_node = edge_start_node
    /\ w2.edge[e].end_node = t
    /\ Len(w2.undo_stack) > 0
    /\ w2.undo_stack[Len(w2.undo_stack)].type = "edge_create"
    /\ w2.undo_stack[Len(w2.undo_stack)].edge = e
    /\ w2.temp_edge = Nil
    /\ w2.edge_start_node = Nil

\* C31: an edge-creation drag released over empty space or over the node it
\* was dragged from discards the edge in progress (not in the scene, not in
\* the scene's edge list, no undo record, temp_edge and edge_start_node
\* reset); the edge is made permanent only when released over another node
C31_ReleaseDiscardsOrConnects ==
    temp_edge # Nil =>
        \A t \in Visible \cup {Nil} :
            IF t = Nil \/ t = edge_start_node
            THEN Discarded(EdgeRelease(World, t), temp_edge)
            ELSE MadePermanent(EdgeRelease(World, t), temp_edge, t)

\* an edge drawn from a node was released and discarded while another node
\* stood in the scene
C31_DragDiscarded ==
    /\ hist.op = "edge_release"
    /\ temp_edge = Nil
    /\ Cardinality(Visible) >= 2
    /\ Len(edge) > 0
    /\ ~edge[Len(edge)].in_scene
    /\ edge[Len(edge)].start_node # Nil
    /\ edge[Len(edge)].end_node = Nil

\* the points of a path without the repeated ones
RECURSIVE DrawnPoints(_)
DrawnPoints(path) ==
    IF Len(path) < 2 THEN path
    ELSE IF path[1] = path[2] THEN DrawnPoints(Tail(path))
    ELSE <<path[1]>> \o DrawnPoints(Tail(path))

\* the path of the live editor's routing rule from start to end
RoutedPath_mx(start, end, mx) ==
    <<start, <<mx, start[2]>>, <<mx, end[2]>>, end>>

RoutedPath(start, end, waypoint_ratio) ==
    RoutedPath_mx(start, end,
                  RAdd(start[1], RMul(waypoint_ratio, RSub(end[1], start[1]))))

RoutedRight(x) ==
    x.start # None /\ x.end # None =>
        DrawnPoints(x.path) = DrawnPoints(RoutedPath(x.start, x.end, x.waypoint_ratio))

\* C32: for every edge of a document the static exporter draws the path of
\* the live editor's routing rule: start, (mx, start.y), (mx, end.y), end
\* with mx = start.x + waypoint_ratio * (end.x - start.x), whatever side of
\* the end node the connection point is on
C32_ExporterRoutesAsEditor ==
    hist.op = "export" => \A i \in DOMAIN hist.svg : RoutedRight(hist.svg[i])

\* the entries of a stack by their kind: undo annotates and re-links an
\* entry in place, so that its fields may change while it stays the entry
Kinds(stack) == AsSeq([i \in 1..Len(stack) |-> stack[i].type])

\* stack `new' is stack `old' with entry x pushed on top (the oldest entry
\* dropped at the limit)
PushedOnTop(old, new, x) ==
    \/ Kinds(new) = Append(Kinds(old), x.type)
    \/ Len(old) = max_undo_stack_size /\ Kinds(new) = Append(Tail(Kinds(old)), x.type)

\* the undo stack after a call of undo that discarded `skipped' entries and
\* applied the one below them
UndoMovedEntry(skipped) ==
    /\ Len(hist.prev_undo) > skipped
    /\ Kinds(undo_stack)
          = SubSeq(Kinds(hist.prev_undo), 1, Len(hist.prev_undo) - skipped - 1)
    /\ PushedOnTop(hist.prev_redo, redo_stack,
                   hist.prev_undo[Len(hist.prev_undo) - skipped])
    /\ redo_stack[Len(redo_stack)].type = hist.ret.kind

RedoMovedEntry ==
    /\ hist.prev_redo # <<>>
    /\ Kinds(redo_stack) = Front(Kinds(hist.prev_redo))
    /\ PushedOnTop(hist.prev_undo, undo_stack, Last(hist.prev_redo))
    /\ undo_stack[Len(undo_stack)].type = hist.ret.kind

\* C33: a successful undo removes exactly the newest valid entry from the
\* undo stack and pushes that same entry on top of the redo stack; a
\* successful redo removes the newest redo entry and pushes it on top of
\* the undo stack; the other entries keep their order, and an entry
\* discarded as invalid is on neither stack afterwards
C33_UndoRedoMoveOneEntry ==
    /\ (hist.op = "undo" /\ hist.ret.applied) => UndoMovedEntry(hist.ret.skipped)
    /\ (hist.op = "redo" /\ hist.ret.applied) => RedoMovedEntry

\* an undo has discarded an invalid entry and applied the one below it,
\* with other entries left on the undo stack
C33_UndoSkippedAndMoved ==
    /\ hist.op = "undo"
    /\ hist.ret.applied
    /\ hist.ret.skipped >= 1

EdgeEnds(w) ==
    {<<OriginOf(w, w.edge[e].start_node), OriginOf(w, w.edge[e].end_node)>> :
        e \in LiveEdges(w)}

\* both nodes of the loaded pair and the edge between them are in the scene
PairRestored(w) ==
    /\ {w.node[n].origin : n \in LiveNodes(w)} = {1, 2}
    /\ Cardinality(LiveNodes(w)) = 2
    /\ EdgeEnds(w) = {<<1, 2>>}
    /\ Cardinality(LiveEdges(w)) = 1

RECURSIVE UndoTimes(_, _)
UndoTimes(w, k) == IF k = 0 THEN w ELSE UndoTimes(undo_action(w), k - 1)

\* the two records of a node deletion are on top of the undo stack again
\* after both were undone and redone at least once
DeletionRedone ==
    /\ redo_stack = <<>>
    /\ Len(undo_stack) = 2
    /\ undo_stack[2].type = "node_delete"
    /\ undo_stack[2].restored_node # Nil
    /\ undo_stack[1].type = "edge_delete"
    /\ undo_stack[1].restored_edge # Nil

\* C34: after a node with a connected edge was deleted and the deletion was
\* undone and redone any number of times, undoing its two records again
\* brings back both nodes and the edge between them.
C34_DeleteUndoRepeatable ==
    DeletionRedone => PairRestored(UndoTimes(World, 2))

\* the flags of node n once the left button is down on its resize handle
HandlePressed(n) == NodePress(World, n, TRUE).node[n]

\* C35: every gesture of the model is complete, so no button is held on a
\* node in any state: no node is then resizing or being moved, and a press on
\* the resize handle of a selected node never leaves it both resizing and
\* being moved.
C35_ResizeMoveExclusive ==
    \A n \in Visible :
        /\ ~node[n].is_resizing
        /\ ~node[n].is_being_moved
        /\ node[n].selected =>
               ~(HandlePressed(n).is_resizing /\ HandlePressed(n).is_being_moved)

ResizeRecords(seq) == {i \in DOMAIN seq : seq[i].type = "node_resize"}

\* what the resize gesture on node n pushed: nothing, or one node_resize
\* record when the rectangle changed
ResizePushed(n, w, w2) ==
    /\ Len(RecordsSince(w, w2)) <= 1
    /\ ResizeRecords(RecordsSince(w, w2)) = DOMAIN RecordsSince(w, w2)
    /\ RecordsSince(w, w2) # <<>> => w2.node[n].rect # w.node[n].rect

\* C36: a press on the resize handle of a selected node, moves and the
\* release push at most one undo record, a node_resize and only when the
\* rectangle changed, and leave every node under the parent it had.
C36_ResizeGesture ==
    [][hist'.op = "resize" =>
          /\ ResizePushed(hist'.n, World, World')
          /\ Parents(World') = Parents(World)]_vars

\* the world with the containment check of node n in progress
Checking(n) == [World EXCEPT !.node[n].checking_parent = TRUE]

ReparentReplayed(op) ==
    /\ hist.op = op
    /\ hist.ret.applied
    /\ hist.ret.kind = "node_reparent"

\* C37: a containment check called on a node whose check is in progress
\* changes nothing, whatever candidate parent it would pick; an undo or a
\* redo of a reparent only moves its own record between the stacks; and no
\* node is left with its check in progress.
C37_ContainmentCheckGuarded ==
    /\ \A n \in Visible : \A first \in (Visible \ {n}) \cup {Nil} :
           check_and_update_parent(Checking(n), n, first) = Checking(n)
    /\ ReparentReplayed("undo") => UndoMovedEntry(hist.ret.skipped)
    /\ ReparentReplayed("redo") => RedoMovedEntry
    /\ \A n \in DOMAIN node : ~node[n].checking_parent

\* a reparent was redone, and the check of some node would now move it under
\* another parent if it were not in progress
C37_ReparentRedone ==
    /\ ReparentReplayed("redo")
    /\ \E n \in Visible : \E first \in (Visible \ {n}) :
          /\ first \in potential_parents(World, n)
          /\ check_and_update_parent(World, n, first) # World

\* edge e is in the scene's edge list and node n is one of its two ends
LiveEndOf(e, n) ==
    /\ Contains(scene_edges, e)
    /\ edge[e].start_node = n \/ edge[e].end_node = n

\* C38: whenever no edge is being drawn, the connected_edges list of every
\* node of the scene holds exactly the edges of the scene's edge list that
\* start or end at that node.
C38_ConnectedEdgesExact ==
    temp_edge = Nil =>
        \A n \in Visible : \A e \in DOMAIN edge :
            Contains(node[n].connected_edges, e) <=> LiveEndOf(e, n)

\* C39: both ends of every edge of the scene's edge list are nodes of the
\* scene.
C39_NoDanglingEdge ==
    \A i \in 1..Len(scene_edges) :
        /\ edge[scene_edges[i]].start_node \in Visible
        /\ edge[scene_edges[i]].end_node \in Visible

\* C40: the window's nodes list holds exactly the nodes of the scene that
\* have no parent, each of them once.
C40_NodesListIsRoots ==
    /\ Range(nodes) = {n \in Visible : node[n].parent_node = Nil}
    /\ Cardinality(Range(nodes)) = Len(nodes)

====
